---- MODULE Spec2Model ----
(***************************************************************************)
(* A model of the Page-to-Markdown content script (src/src/content.js):    *)
(* the AdvancedMarkdownConverter, its HTML normalizer, its Turndown rules, *)
(* its Markdown post-processor and its metadata extractor.                 *)
(*                                                                         *)
(* Strings are sequences of one-character strings, so that the regular     *)
(* expressions of the source (runs of backticks, runs of newlines, trim)   *)
(* are computed character by character as the source computes them.        *)
(***************************************************************************)
EXTENDS Integers, Sequences, FiniteSets, TLC

VARIABLES
    code,       \* computeFence / preformattedCode: the code string handed in
    fence,      \* computeFence: the fence returned for code
    emitted,    \* preformattedCode.replacement: the block it returned for code
    doc,        \* the live document: [body, title, hostname, meta, tagLinks]
    oracle,     \* the outcomes the boundary-detection heuristic may have on doc
    defuddleResult, \* this.defuddleResult
    defuddleHtml,   \* this.defuddleHtml
    pc,         \* where the running processPage invocation stands ("idle": none)
    inv,        \* the number of processPage invocations started so far
    heuristic,  \* what the heuristic did in the running invocation
    content,    \* processPage: const content
    metadata,   \* processPage: const metadata
    markdown,   \* processPage: const markdown
    sourceHtml, \* convertToMarkdown: const sourceHtml
    sent,       \* the invocations that sent their DOWNLOAD_MARKDOWN message
    alerts,     \* the invocations that showed an alert
    errors,     \* the invocations that logged console.error
    awaiting,   \* the invocations suspended awaiting sendToBackground
    ignored,    \* whether a message with another action was received
    turndown,   \* this.turndown
    message,    \* the messages the running invocation handed to sendMessage
    fn,         \* the function applied on its own, "none" when none is
    arg,        \* the argument handed to fn
    ret,        \* what fn returned
    threw,      \* the svgs XMLSerializer threw on while fn ran
    scan,       \* the object fn logged as '[PageToMD] svg scan'
    loop,       \* the locals of the running loop over the svgs
    received,   \* background: the messages handleMessage was called with
    downloads,  \* background: where the download of each message stands
    objectUrls, \* background: the object URLs created and not revoked
    timers,     \* background: the revocations setTimeout has scheduled
    responses   \* background: what the sender of each message was answered

varsFence == <<code, fence, emitted>>
varsCall == <<fn, arg, ret, threw, scan, loop>>
varsDownloader == <<received, downloads, objectUrls, timers, responses>>
varsPage == <<doc, oracle, defuddleResult, defuddleHtml, pc, inv, heuristic,
              content, metadata, markdown, sourceHtml, sent, alerts, errors,
              awaiting, ignored, turndown, message>>
vars == <<code, fence, emitted, doc, oracle, defuddleResult, defuddleHtml, pc,
          inv, heuristic, content, metadata, markdown, sourceHtml, sent,
          alerts, errors, awaiting, ignored, turndown, message, fn, arg, ret,
          threw, scan, loop, received, downloads, objectUrls, timers, responses>>

----------------------------------------------------------------------------
(* Strings                                                                 *)

Max(a, b) == IF a >= b THEN a ELSE b
Min(a, b) == IF a <= b THEN a ELSE b

\* All strings over chars of length at most n.
StringsUpTo(chars, n) == UNION {[1..k -> chars] : k \in 0..n}

\* String.prototype.repeat
Repeat(c, n) == [i \in 1..n |-> c]

\* The backtick character (a string literal of TLA+ cannot hold one).
BT == "BACKTICK"
NL == "\n"

\* The whitespace class of JavaScript regular expressions and of trim(),
\* restricted to the characters the model uses.
IsSpace(c) == c \in {" ", "\n", "\t", "\r"}

RECURSIVE TrimStart(_)
TrimStart(s) ==
    IF s = <<>> THEN <<>>
    ELSE IF IsSpace(Head(s)) THEN TrimStart(Tail(s)) ELSE s

RECURSIVE TrimEnd(_)
TrimEnd(s) ==
    IF s = <<>> THEN <<>>
    ELSE IF IsSpace(s[Len(s)]) THEN TrimEnd(SubSeq(s, 1, Len(s) - 1)) ELSE s

\* String.prototype.trim
Trim(s) == TrimEnd(TrimStart(s))

----------------------------------------------------------------------------
(* computeFence (content.js 611-615)                                       *)

\* The length of the maximal run of backticks that starts at position i.
RECURSIVE RunLengthFrom(_, _)
RunLengthFrom(s, i) ==
    IF i > Len(s) \/ s[i] # BT THEN 0 ELSE 1 + RunLengthFrom(s, i + 1)

\* code.match(/BT+/g) || [] : the lengths of the matches, left to right. The
\* regular expression is greedy, so each match is a maximal run.
RECURSIVE BacktickMatches(_, _)
BacktickMatches(s, i) ==
    IF i > Len(s) THEN <<>>
    ELSE IF s[i] = BT
         THEN LET n == RunLengthFrom(s, i)
              IN  <<n>> \o BacktickMatches(s, i + n)
         ELSE BacktickMatches(s, i + 1)

\* matches.reduce((acc, m) => Math.max(acc, m.length), 0)
RECURSIVE ReduceMax(_, _)
ReduceMax(ms, acc) ==
    IF ms = <<>> THEN acc ELSE ReduceMax(Tail(ms), Max(acc, Head(ms)))

MinFence == 3

\* A fence one backtick short of what the source computes (Math.max(3, max)).
computeFenceShort(s) ==
    Repeat(BT, Max(MinFence, ReduceMax(BacktickMatches(s, 1), 0)))

computeFence(s) ==
    Repeat(BT, Max(MinFence, ReduceMax(BacktickMatches(s, 1), 0) + 1))

\* preformattedCode.replacement (content.js 58-75) for a PRE whose code text
\* is text and whose detected language is language.
preformattedCodeReplacement(text, language) ==
    LET c == Trim(text)
    IN  IF c = <<>> THEN <<>>
        ELSE LET f == computeFence(c)
             IN  <<NL, NL>> \o f \o language \o <<NL>> \o c \o <<NL>> \o f \o <<NL, NL>>

----------------------------------------------------------------------------
(* JavaScript values                                                       *)

\* null and undefined, as strings no text of the model is equal to.
Null == <<"#null">>
Undefined == <<"#undefined">>

\* ToBoolean of a string-or-null value.
Truthy(v) == v # Null /\ v # Undefined /\ v # <<>>

\* a || b
OrElse(a, b) == IF Truthy(a) THEN a ELSE b

Range(s) == {s[i] : i \in 1..Len(s)}

\* An HTML string: absent (null or undefined), or the markup of a sequence
\* of nodes; the empty string is the markup of no node.
NoHtml == [present |-> FALSE, nodes |-> <<>>]
Html(nodes) == [present |-> TRUE, nodes |-> nodes]
HtmlTruthy(h) == h.present /\ h.nodes # <<>>

----------------------------------------------------------------------------
(* The heuristic's result (the object Defuddle.parse() returns)            *)

DefTextKeys == {"title", "description", "author", "published", "domain",
                "siteName", "site", "publication"}

\* parse() returned null or undefined.
DefNull ==
    [nul |-> TRUE, content |-> NoHtml, hasWordCount |-> FALSE, wordCount |-> 0,
     text |-> [k \in DefTextKeys |-> Undefined]]

\* def?.key
DefGet(def, k) == IF def.nul THEN Undefined ELSE def.text[k]

----------------------------------------------------------------------------
(* The DOM: a node is a text node or an element with attributes and        *)
(* children. An HTML string is the sequence of nodes it parses to, and     *)
(* innerHTML is the sequence of children it serializes.                    *)

Txt(s) == [tag |-> "#text", attrs |-> <<>>, kids |-> <<>>, text |-> s]
El(tag, attrs, kids) == [tag |-> tag, attrs |-> attrs, kids |-> kids, text |-> <<>>]
IsText(n) == n.tag = "#text"

\* Element.getAttribute: attrs is a sequence of <<name, value>> pairs.
getAttribute(n, name) ==
    IF \E i \in 1..Len(n.attrs) : n.attrs[i][1] = name
    THEN n.attrs[CHOOSE i \in 1..Len(n.attrs) :
                    /\ n.attrs[i][1] = name
                    /\ \A j \in 1..(i - 1) : n.attrs[j][1] # name][2]
    ELSE Null

RECURSIVE ConcatAll(_)
ConcatAll(ss) == IF ss = <<>> THEN <<>> ELSE Head(ss) \o ConcatAll(Tail(ss))

\* Node.textContent
RECURSIVE textContent(_)
textContent(n) ==
    IF IsText(n) THEN n.text
    ELSE ConcatAll([i \in 1..Len(n.kids) |-> textContent(n.kids[i])])

\* The descendants of n in document order (n itself left out), as
\* querySelectorAll walks them.
RECURSIVE Descendants(_)
Descendants(n) ==
    ConcatAll([i \in 1..Len(n.kids) |-> <<n.kids[i]>> \o Descendants(n.kids[i])])

\* node.querySelector(tag list): the first descendant with one of the tags,
\* as a sequence of at most one node.
FirstWithTag(n, tags) ==
    LET found == SelectSeq(Descendants(n), LAMBDA d : d.tag \in tags)
    IN  IF found = <<>> THEN <<>> ELSE <<Head(found)>>

IsBlankString(s) == \A i \in 1..Len(s) : IsSpace(s[i])

HeadingTags == <<"h1", "h2", "h3", "h4", "h5", "h6">>
IsHeading(n) == n.tag \in Range(HeadingTags)

\* Number.parseInt(node.nodeName.substring(1), 10)
HeadingLevel(n) == CHOOSE l \in 1..Len(HeadingTags) : HeadingTags[l] = n.tag

----------------------------------------------------------------------------
(* getMeta, extractTags, extractMetadata (content.js 644-694)              *)

TitleNames == <<"og:title", "twitter:title">>
SourceNames == <<"og:site_name", "twitter:site", "application-name">>
DescriptionNames == <<"og:description", "twitter:description", "description">>
AuthorNames == <<"author", "article:author", "twitter:creator">>
PublishedNames == <<"article:published_time">>
KeywordsName == "keywords"

MetaNames ==
    Range(TitleNames) \cup Range(SourceNames) \cup Range(DescriptionNames)
        \cup Range(AuthorNames) \cup Range(PublishedNames) \cup {KeywordsName}

\* d.meta[name] is the content attribute of the first element that
\* meta[name="..."], meta[property="..."] selects, Null when it selects none.

\* getMeta(names): the trimmed content of the first name whose element exists
\* and has a content that is not the empty string.
RECURSIVE getMeta(_, _)
getMeta(d, names) ==
    IF names = <<>> THEN Null
    ELSE LET c == d.meta[Head(names)]
         IN  IF c # Null /\ c # <<>> THEN Trim(c) ELSE getMeta(d, Tail(names))

\* getMeta with the loop stopped after the first name of the list.
getMetaFirstNameOnly(d, names) ==
    IF names = <<>> THEN Null
    ELSE LET c == d.meta[Head(names)]
         IN  IF c # Null /\ c # <<>> THEN Trim(c) ELSE Null

\* String.prototype.split(','): the pieces between the commas.
RECURSIVE SplitComma(_, _)
SplitComma(s, piece) ==
    IF s = <<>> THEN <<piece>>
    ELSE IF Head(s) = "," THEN <<piece>> \o SplitComma(Tail(s), <<>>)
         ELSE SplitComma(Tail(s), Append(piece, Head(s)))

\* Set.prototype.add on a Set kept in insertion order.
SetAdd(set, x) == IF x \in Range(set) THEN set ELSE Append(set, x)

\* forEach((t) => tags.add(t.trim()))
RECURSIVE AddAllTrimmed(_, _)
AddAllTrimmed(set, items) ==
    IF items = <<>> THEN set
    ELSE AddAllTrimmed(SetAdd(set, Trim(Head(items))), Tail(items))

\* Array.prototype.slice(0, n)
SliceTo(s, n) == SubSeq(s, 1, Min(n, Len(s)))

TagCap == 10

\* extractTags without the cap.
extractTagsUncapped(d) ==
    LET kw == d.meta[KeywordsName]
        fromKeywords == IF kw # Null /\ kw # <<>>
                        THEN AddAllTrimmed(<<>>, SplitComma(kw, <<>>))
                        ELSE <<>>
    IN  AddAllTrimmed(fromKeywords, d.tagLinks)

\* extractTags with the tag links scanned before the keywords.
extractTagsLinksFirst(d) ==
    LET kw == d.meta[KeywordsName]
        fromLinks == AddAllTrimmed(<<>>, d.tagLinks)
    IN  SliceTo(IF kw # Null /\ kw # <<>>
                THEN AddAllTrimmed(fromLinks, SplitComma(kw, <<>>))
                ELSE fromLinks, TagCap)

\* extractTags (content.js 682-694). d.tagLinks holds the textContent of the
\* elements that '.tags a, a[rel="tag"]' selects, in document order.
extractTags(d) ==
    LET kw == d.meta[KeywordsName]
        fromKeywords == IF kw # Null /\ kw # <<>>
                        THEN AddAllTrimmed(<<>>, SplitComma(kw, <<>>))
                        ELSE <<>>
    IN  SliceTo(AddAllTrimmed(fromKeywords, d.tagLinks), TagCap)

\* String.prototype.replace('www.', ''): the first occurrence removed.
RECURSIVE StripWww(_)
StripWww(h) ==
    IF h = <<>> THEN <<>>
    ELSE IF Head(h) = "www." THEN Tail(h) ELSE <<Head(h)>> \o StripWww(Tail(h))

Untitled == <<"Untitled">>

\* The metadata record before any extraction.
NoMetadata ==
    [title |-> Undefined, domain |-> Undefined, source |-> Undefined,
     description |-> Undefined, author |-> Undefined,
     publishedDate |-> Undefined, tags |-> <<>>]

\* text.trim().split(/\s+/).length: a string splits into one piece more than
\* it holds maximal runs of whitespace, the empty string into one empty piece.
SplitWhitespaceLength(s) ==
    1 + Cardinality({i \in 1..Len(s) :
                        IsSpace(s[i]) /\ (i = 1 \/ ~IsSpace(s[i - 1]))})

\* doc.body.textContent || ''
BodyText(d) == ConcatAll([i \in 1..Len(d.body) |-> textContent(d.body[i])])

\* def?.wordCount ?? text.trim().split(/\s+/).length (content.js 668)
wordCount(d, def) ==
    IF ~def.nul /\ def.hasWordCount THEN def.wordCount
    ELSE SplitWhitespaceLength(Trim(BodyText(d)))

\* The divisor of content.js 669.
WordsPerMinute == 200

\* Math.ceil(a / b) for a >= 0, b > 0.
CeilDiv(a, b) == (a + b - 1) \div b

\* extractMetadata with the heuristic's value and the meta tag swapped in the
\* four heuristic-first fields.
extractMetadataMetaFirst(d, def) ==
    [title |-> OrElse(getMeta(d, TitleNames),
                 OrElse(DefGet(def, "title"), OrElse(d.title, Untitled))),
     domain |-> OrElse(DefGet(def, "domain"), StripWww(d.hostname)),
     source |-> OrElse(getMeta(d, SourceNames),
                 OrElse(DefGet(def, "siteName"),
                 OrElse(DefGet(def, "site"),
                 OrElse(DefGet(def, "publication"),
                 OrElse(DefGet(def, "domain"), StripWww(d.hostname)))))),
     description |-> OrElse(getMeta(d, DescriptionNames), DefGet(def, "description")),
     author |-> OrElse(getMeta(d, AuthorNames), DefGet(def, "author")),
     publishedDate |-> OrElse(getMeta(d, PublishedNames), DefGet(def, "published")),
     tags |-> extractTags(d),
     wordCount |-> wordCount(d, def),
     readingTime |-> CeilDiv(wordCount(d, def), WordsPerMinute)]

\* extractMetadata (content.js 644-672) on document d with this.defuddleResult
\* = def.
extractMetadata(d, def) ==
    [title |-> OrElse(DefGet(def, "title"),
                 OrElse(getMeta(d, TitleNames), OrElse(d.title, Untitled))),
     domain |-> OrElse(DefGet(def, "domain"), StripWww(d.hostname)),
     source |-> OrElse(getMeta(d, SourceNames),
                 OrElse(DefGet(def, "siteName"),
                 OrElse(DefGet(def, "site"),
                 OrElse(DefGet(def, "publication"),
                 OrElse(DefGet(def, "domain"), StripWww(d.hostname)))))),
     description |-> OrElse(DefGet(def, "description"), getMeta(d, DescriptionNames)),
     author |-> OrElse(DefGet(def, "author"), getMeta(d, AuthorNames)),
     publishedDate |-> OrElse(DefGet(def, "published"), getMeta(d, PublishedNames)),
     tags |-> extractTags(d),
     wordCount |-> wordCount(d, def),
     readingTime |-> CeilDiv(wordCount(d, def), WordsPerMinute)]

----------------------------------------------------------------------------
(* Recognition of a diagram graphic (content.js 79-91, 298-305). Attribute *)
(* values are sequences of atoms: a word is one atom ("mermaid", "x"), in  *)
(* its upper-case spelling another ("MERMAID"), and "-" and " " are atoms  *)
(* that are no word characters.                                            *)

Lower(a) ==
    CASE a = "MERMAID" -> "mermaid"
      [] a = "FLOWCHART" -> "flowchart"
      [] OTHER -> a

IsWordAtom(a) == a \notin {" ", "-", "\n", "\t", ",", ".", ":", "#", "/"}

\* id.startsWith('mermaid-')
StartsWithMermaidDash(s) == Len(s) >= 2 /\ s[1] = "mermaid" /\ s[2] = "-"

\* /\bword\b/i.test(s)
TestWordI(s, word) ==
    \E i \in 1..Len(s) :
       /\ Lower(s[i]) = word
       /\ i = 1 \/ ~IsWordAtom(s[i - 1])
       /\ i = Len(s) \/ ~IsWordAtom(s[i + 1])

\* /word/i.test(s)
TestContainsI(s, word) == \E i \in 1..Len(s) : Lower(s[i]) = word

\* getAttribute(name) || ''
AttrOrEmpty(n, name) == OrElse(getAttribute(n, name), <<>>)

\* The isMermaid test of normalizeContentHtml and the mermaidSvg filter.
IsMermaidSvg(n) ==
    /\ n.tag = "svg"
    /\ \/ StartsWithMermaidDash(AttrOrEmpty(n, "id"))
       \/ TestWordI(AttrOrEmpty(n, "class"), "mermaid")
       \/ TestWordI(AttrOrEmpty(n, "class"), "flowchart")
       \/ TestContainsI(AttrOrEmpty(n, "aria-roledescription"), "flowchart")

----------------------------------------------------------------------------
(* detectLanguage (content.js 617-642)                                     *)

\* className.match(/prefix(\w+)/): the word atom after the first prefix atom
\* that has one, as match[1]; Null without a match. The prefix "language-"
\* is the atoms "language", "-".
MatchAfter(s, prefix) ==
    LET at == {i \in 1..(Len(s) - 2) :
                 s[i] = prefix /\ s[i + 1] = "-" /\ IsWordAtom(s[i + 2])}
    IN  IF at = {} THEN Null
        ELSE <<s[(CHOOSE i \in at : \A j \in at : i <= j) + 2]>>

\* The checks detectLanguage makes on the enclosing pre, and
\* detectLanguageForPre makes on a pre without code child.
LanguageOfPre(pre) ==
    LET dataLang == OrElse(getAttribute(pre, "data-lang"), getAttribute(pre, "data-language"))
        cls == AttrOrEmpty(pre, "class")
        match == OrElse(MatchAfter(cls, "language"), MatchAfter(cls, "lang"))
    IN  IF Truthy(dataLang) THEN dataLang
        ELSE IF Truthy(match) THEN match ELSE <<>>

\* detectLanguage(codeElement), parentPre being codeElement.closest('pre') as
\* a sequence of at most one node.
detectLanguage(codeElement, parentPre) ==
    LET cls == AttrOrEmpty(codeElement, "class")
    IN  IF Truthy(getAttribute(codeElement, "data-lang"))
        THEN getAttribute(codeElement, "data-lang")
        ELSE IF Truthy(getAttribute(codeElement, "data-language"))
        THEN getAttribute(codeElement, "data-language")
        ELSE IF Truthy(MatchAfter(cls, "language")) THEN MatchAfter(cls, "language")
        ELSE IF Truthy(MatchAfter(cls, "lang")) THEN MatchAfter(cls, "lang")
        ELSE IF parentPre # <<>> THEN LanguageOfPre(parentPre[1])
        ELSE <<>>

----------------------------------------------------------------------------
(* The Turndown service: its rule list and its tree walk (the library      *)
(* behind this.turndown, content.js 29-46 and 274).                        *)

\* The CommonMark rules, in the order the service holds them.
CommonMarkRules ==
    <<"paragraph", "lineBreak", "heading", "blockquote", "list", "listItem",
      "indentedCodeBlock", "fencedCodeBlock", "horizontalRule", "inlineLink",
      "referenceLink", "emphasis", "strong", "code", "image">>

\* turndown.addRule(key, rule): the rule goes to the front of the list.
AddRule(rules, key) == <<key>> \o rules

RECURSIVE AddRules(_, _)
AddRules(rules, keys) ==
    IF keys = <<>> THEN rules ELSE AddRules(AddRule(rules, Head(keys)), Tail(keys))

\* turndown.use(gfm) (content.js 41-43): the plugin adds its rules one by one.
GfmRules ==
    <<"highlightedCodeBlock", "strikethrough", "tableCell", "tableRow", "table",
      "tableSection", "taskListItems">>

\* prioritizeRule (content.js 703-710): a rule found behind the front moves
\* to the front.
prioritizeRule(rules, name) ==
    IF \E i \in 2..Len(rules) : rules[i] = name
    THEN LET i == CHOOSE k \in 2..Len(rules) : rules[k] = name
         IN  <<name>> \o SubSeq(rules, 1, i - 1) \o SubSeq(rules, i + 1, Len(rules))
    ELSE rules

\* The custom rules put behind the rules of the service instead of before
\* them.
addCustomRulesBehind(rules) ==
    rules \o <<"figure", "linkedHeadings", "headingLinks", "cleanHeadings",
               "inlineCode", "mermaidSvg", "preformattedCode">>

\* addCustomRules (content.js 48-189): the calls that change the rule list,
\* in the order of the source.
addCustomRules(rules) ==
    LET r1 == AddRule(AddRule(rules, "preformattedCode"), "mermaidSvg")
        r2 == prioritizeRule(prioritizeRule(r1, "preformattedCode"), "mermaidSvg")
        r3 == AddRules(r2, <<"inlineCode", "cleanHeadings", "headingLinks", "linkedHeadings">>)
        r4 == prioritizeRule(prioritizeRule(prioritizeRule(r3, "cleanHeadings"),
                                            "headingLinks"), "linkedHeadings")
    IN  AddRule(r4, "figure")

\* turndown.remove([...]) (content.js 188)
RemovedTags ==
    {"script", "style", "noscript", "iframe", "object", "embed", "footer", "nav"}

\* initializeConverter (content.js 28-46)
initializeConverter ==
    [ready |-> TRUE,
     rules |-> addCustomRules(AddRules(CommonMarkRules, GfmRules)),
     remove |-> RemovedTags]

VoidTags == {"area", "base", "br", "col", "command", "embed", "hr", "img", "input",
             "keygen", "link", "meta", "param", "source", "track", "wbr"}
MeaningfulWhenBlankTags ==
    {"a", "table", "thead", "tbody", "tfoot", "th", "td", "iframe", "script",
     "audio", "video"}
BlockTags ==
    {"address", "article", "aside", "audio", "blockquote", "body", "canvas",
     "center", "dd", "dir", "div", "dl", "dt", "fieldset", "figcaption", "figure",
     "footer", "form", "frameset", "h1", "h2", "h3", "h4", "h5", "h6", "header",
     "hgroup", "hr", "html", "isindex", "li", "main", "menu", "nav", "noframes",
     "noscript", "ol", "output", "p", "pre", "section", "table", "tbody", "td",
     "tfoot", "th", "thead", "tr", "ul"}

\* Turndown's node.isBlank
isBlank(n) ==
    /\ n.tag \notin VoidTags
    /\ n.tag \notin MeaningfulWhenBlankTags
    /\ IsBlankString(textContent(n))
    /\ \A d \in Range(Descendants(n)) :
          d.tag \notin VoidTags /\ d.tag \notin MeaningfulWhenBlankTags

ElementKids(n) == SelectSeq(n.kids, LAMBDA k : ~IsText(k))

\* The children headingLinks counts: all but the whitespace-only text nodes.
NonWhitespaceKids(n) ==
    SelectSeq(n.kids, LAMBDA k : ~(IsText(k) /\ IsBlankString(k.text)))

\* rule.filter(node), parent being node.parentNode.
FilterMatches(key, n, parent) ==
    CASE key = "figure" -> n.tag = "figure"
      [] key = "linkedHeadings" ->
            n.tag = "a" /\ FirstWithTag(n, Range(HeadingTags)) # <<>>
      [] key = "headingLinks" ->
            /\ IsHeading(n)
            /\ \/ Len(SelectSeq(n.kids, LAMBDA k : k.tag = "a")) = 1
               \/ /\ Len(NonWhitespaceKids(n)) = 1
                  /\ NonWhitespaceKids(n)[1].tag = "a"
      [] key = "cleanHeadings" -> IsHeading(n)
      [] key = "inlineCode" -> n.tag = "code" /\ parent.tag # "pre"
      [] key = "mermaidSvg" -> IsMermaidSvg(n)
      [] key = "preformattedCode" -> n.tag = "pre"
      [] key = "paragraph" -> n.tag = "p"
      [] key = "lineBreak" -> n.tag = "br"
      [] key = "heading" -> IsHeading(n)
      [] key = "blockquote" -> n.tag = "blockquote"
      [] key = "list" -> n.tag \in {"ul", "ol"}
      [] key = "listItem" -> n.tag = "li"
      [] key = "indentedCodeBlock" -> FALSE   \* codeBlockStyle is 'fenced'
      [] key = "fencedCodeBlock" ->
            n.tag = "pre" /\ n.kids # <<>> /\ n.kids[1].tag = "code"
      [] key = "horizontalRule" -> n.tag = "hr"
      [] key = "inlineLink" -> n.tag = "a" /\ Truthy(getAttribute(n, "href"))
      [] key = "referenceLink" -> FALSE       \* linkStyle is 'inlined'
      [] key = "emphasis" -> n.tag \in {"em", "i"}
      [] key = "strong" -> n.tag \in {"strong", "b"}
      [] key = "code" ->
            n.tag = "code" /\ ~(parent.tag = "pre" /\ Len(parent.kids) = 1)
      [] key = "image" -> n.tag = "img"
      [] key = "strikethrough" -> n.tag \in {"del", "s", "strike"}
      [] key = "tableCell" -> n.tag \in {"th", "td"}
      [] key = "tableRow" -> n.tag = "tr"
      [] key = "table" -> n.tag = "table"
      [] key = "tableSection" -> n.tag \in {"thead", "tbody", "tfoot"}
      [] OTHER -> FALSE

\* Rules.forNode: the blank rule for a blank node, else the first rule of the
\* list whose filter matches, else the remove rule, else the default rule.
forNode(service, n, parent) ==
    IF isBlank(n) THEN "#blank"
    ELSE IF \E i \in 1..Len(service.rules) : FilterMatches(service.rules[i], n, parent)
    THEN service.rules[CHOOSE i \in 1..Len(service.rules) :
            /\ FilterMatches(service.rules[i], n, parent)
            /\ \A j \in 1..(i - 1) : ~FilterMatches(service.rules[j], n, parent)]
    ELSE IF n.tag \in service.remove THEN "#remove"
    ELSE "#default"

----------------------------------------------------------------------------
(* Places in a tree: a path is the sequence of child indexes from the root. *)

RECURSIVE NodeAt(_, _)
NodeAt(root, p) == IF p = <<>> THEN root ELSE NodeAt(root.kids[Head(p)], Tail(p))

\* The paths of the descendants of the node at p, in document order.
RECURSIVE PathsBelow(_, _)
PathsBelow(root, p) ==
    LET n == NodeAt(root, p)
    IN  ConcatAll([i \in 1..Len(n.kids) |->
                      <<Append(p, i)>> \o PathsBelow(root, Append(p, i))])

\* The tree with the node at p replaced by m (Element.replaceWith).
RECURSIVE ReplaceAt(_, _, _)
ReplaceAt(root, p, m) ==
    IF p = <<>> THEN m
    ELSE [root EXCEPT !.kids[Head(p)] = ReplaceAt(root.kids[Head(p)], Tail(p), m)]

Prefix(p, k) == SubSeq(p, 1, k)

\* The paths of p and its ancestors, nearest first (the walk of closest()).
SelfAndAncestors(p) == [k \in 1..(Len(p) + 1) |-> Prefix(p, Len(p) + 1 - k)]

ProperAncestors(p) == [k \in 1..Len(p) |-> Prefix(p, Len(p) - k)]

\* element.closest(test): the nearest of p and its ancestors that passes, as
\* a sequence of at most one path.
Closest(root, p, Test(_)) ==
    LET found == SelectSeq(SelfAndAncestors(p), LAMBDA q : Test(NodeAt(root, q)))
    IN  IF found = <<>> THEN <<>> ELSE <<Head(found)>>

\* The class tokens of an element: the pieces of its class attribute between
\* the blanks.
RECURSIVE SplitBlank(_, _)
SplitBlank(s, piece) ==
    IF s = <<>> THEN (IF piece = <<>> THEN <<>> ELSE <<piece>>)
    ELSE IF Head(s) = " "
         THEN (IF piece = <<>> THEN <<>> ELSE <<piece>>) \o SplitBlank(Tail(s), <<>>)
         ELSE SplitBlank(Tail(s), Append(piece, Head(s)))

HasClass(n, token) == token \in Range(SplitBlank(AttrOrEmpty(n, "class"), <<>>))

----------------------------------------------------------------------------
(* Serialization: the HTML text of a sequence of nodes, as atoms. "<" and  *)
(* ">" stand only where markup stands: in a text node they are written as  *)
(* the entities the serializer writes.                                     *)

EscapeText(s) ==
    [i \in 1..Len(s) |->
        CASE s[i] = "<" -> "&lt;"
          [] s[i] = ">" -> "&gt;"
          [] s[i] = "&" -> "&amp;"
          [] OTHER -> s[i]]

SerializeAttrs(attrs) ==
    ConcatAll([i \in 1..Len(attrs) |->
                  <<" ", attrs[i][1], "=", "\"">> \o attrs[i][2] \o <<"\"">>])

RECURSIVE Serialize(_)
Serialize(n) ==
    IF IsText(n) THEN EscapeText(n.text)
    ELSE <<"<", n.tag>> \o SerializeAttrs(n.attrs) \o <<">">>
            \o ConcatAll([i \in 1..Len(n.kids) |-> Serialize(n.kids[i])])
            \o <<"</", n.tag, ">">>

\* innerHTML of an element with these children; the text of an HTML string.
SerializeAll(nodes) == ConcatAll([i \in 1..Len(nodes) |-> Serialize(nodes[i])])

\* String.prototype.includes for a needle of two atoms.
Includes2(s, a, b) == \E i \in 1..(Len(s) - 1) : s[i] = a /\ s[i + 1] = b

\* html.includes('<svg') and html.includes('mermaid-')
IncludesSvgTag(nodes) == Includes2(SerializeAll(nodes), "<", "svg")
IncludesMermaidDash(nodes) == Includes2(SerializeAll(nodes), "mermaid", "-")

----------------------------------------------------------------------------
(* extractMermaidSource (content.js 443-496)                               *)

AttrCandidates ==
    <<"data-source", "data-mermaid", "data-diagram", "data-graph", "data-code">>

\* value && /\S/.test(value)
NonBlankValue(v) == Truthy(v) /\ ~IsBlankString(v)

\* The first loop: the known data attributes of the node itself.
RECURSIVE OwnAttrSource(_, _)
OwnAttrSource(n, names) ==
    IF names = <<>> THEN <<>>
    ELSE IF NonBlankValue(getAttribute(n, Head(names)))
         THEN Trim(getAttribute(n, Head(names)))
         ELSE OwnAttrSource(n, Tail(names))

\* The second loop: for each known attribute, the nearest of the node and its
\* ancestors that carries it.
RECURSIVE ClosestAttrSource(_, _, _)
ClosestAttrSource(root, p, names) ==
    IF names = <<>> THEN <<>>
    ELSE LET el == Closest(root, p, LAMBDA m : getAttribute(m, Head(names)) # Null)
         IN  IF el # <<>> /\ NonBlankValue(getAttribute(NodeAt(root, el[1]), Head(names)))
             THEN Trim(getAttribute(NodeAt(root, el[1]), Head(names)))
             ELSE ClosestAttrSource(root, p, Tail(names))

LanguageMermaid == <<"language", "-", "mermaid">>
IsMermaidText(v) == v = <<"mermaid">>

HasPreAncestor(root, p) ==
    \E k \in 1..Len(p) : NodeAt(root, ProperAncestors(p)[k]).tag = "pre"

\* The selectors of the source (content.js 461-471), by their place in the
\* list.
Selectors == 1..9
SelectorMatches(root, p, sel) ==
    LET n == NodeAt(root, p)
    IN  CASE sel = 1 -> n.tag = "code" /\ HasClass(n, LanguageMermaid) /\ HasPreAncestor(root, p)
          [] sel = 2 -> n.tag = "code" /\ HasClass(n, LanguageMermaid)
          [] sel = 3 -> n.tag = "pre" /\ HasClass(n, <<"mermaid">>)
          [] sel = 4 -> n.tag = "code" /\ HasClass(n, <<"mermaid">>)
          [] sel = 5 -> /\ n.tag = "code"
                        /\ IsMermaidText(getAttribute(n, "data-lang"))
                        /\ HasPreAncestor(root, p)
          [] sel = 6 -> n.tag = "code" /\ IsMermaidText(getAttribute(n, "data-lang"))
          [] sel = 7 -> n.tag = "div" /\ HasClass(n, <<"mermaid">>)
          [] sel = 8 -> n.tag = "script" /\ getAttribute(n, "type") = <<"application/mermaid">>
          [] OTHER -> /\ n.tag = "script"
                      /\ getAttribute(n, "type") = <<"text/plain">>
                      /\ IsMermaidText(getAttribute(n, "data-lang"))

\* scope.querySelector(selector): the first match below the scope, as a
\* sequence of at most one path.
QuerySelector(root, scope, sel) ==
    LET found == SelectSeq(PathsBelow(root, scope), LAMBDA q : SelectorMatches(root, q, sel))
    IN  IF found = <<>> THEN <<>> ELSE <<Head(found)>>

\* el.closest('[data-pagetomd-generated="mermaid"]')
InsideGenerated(root, q) ==
    Closest(root, q, LAMBDA m : IsMermaidText(getAttribute(m, "data-pagetomd-generated"))) # <<>>

\* One of the two selector loops, from selector sel on: the text of the first
\* usable match. skipSelf is the check el === svgElement of the first loop.
\* In a document that DOMParser made nothing is rendered, and innerText is
\* textContent.
RECURSIVE SelectorSource(_, _, _, _, _)
SelectorSource(root, scope, p, sel, skipSelf) ==
    IF sel \notin Selectors THEN <<>>
    ELSE LET el == QuerySelector(root, scope, sel)
         IN  IF /\ el # <<>>
                /\ ~(skipSelf /\ el[1] = p)
                /\ ~InsideGenerated(root, el[1])
                /\ Trim(textContent(NodeAt(root, el[1]))) # <<>>
             THEN Trim(textContent(NodeAt(root, el[1])))
             ELSE SelectorSource(root, scope, p, sel + 1, skipSelf)

\* svgElement.closest('figure, div, section, article') || parentElement
ContainerOf(root, p) ==
    LET c == Closest(root, p, LAMBDA m : m.tag \in {"figure", "div", "section", "article"})
    IN  IF c # <<>> THEN c[1] ELSE Prefix(p, Len(p) - 1)

\* extractMermaidSource(svgElement) for the svg at path p of tree, a tree
\* of the document whose body is body: the body itself, or a subtree that
\* was taken out of it (its ownerDocument is still the document).
extractMermaidSourceIn(tree, p, body) ==
    LET own == OwnAttrSource(NodeAt(tree, p), AttrCandidates)
        anc == ClosestAttrSource(tree, p, AttrCandidates)
        near == SelectorSource(tree, ContainerOf(tree, p), p, 1, TRUE)
    IN  IF own # <<>> THEN own
        ELSE IF anc # <<>> THEN anc
        ELSE IF near # <<>> THEN near
        ELSE SelectorSource(body, <<>>, <<>>, 1, FALSE)

\* extractMermaidSource(svgElement) for the svg at path p of the document
\* whose body is root.
extractMermaidSource(root, p) == extractMermaidSourceIn(root, p, root)

----------------------------------------------------------------------------
(* The scan of the raw HTML (content.js 498-522)                           *)

\* A backslash followed by n, as the raw HTML of a string literal holds it.
EscNL == "\\n"

\* unescapeEmbeddedText: each escape becomes the character it names.
unescapeEmbeddedText(s) ==
    [i \in 1..Len(s) |->
        CASE s[i] = "\\u003e" -> ">"
          [] s[i] = EscNL -> NL
          [] s[i] = "\\r" -> "\r"
          [] s[i] = "\\t" -> "\t"
          [] s[i] = "\\\"" -> "\""
          [] s[i] = "\\\\" -> "\\"
          [] OTHER -> s[i]]

IsFenceAt(s, i) == i + 2 <= Len(s) /\ s[i] = BT /\ s[i + 1] = BT /\ s[i + 2] = BT

\* The opening of the pattern at i: three backticks, mermaid, and a newline
\* or an escaped newline. The result is the place after it, 0 without one.
OpeningEnd(s, i) ==
    IF IsFenceAt(s, i) /\ i + 4 <= Len(s) /\ s[i + 3] = "mermaid"
    THEN IF s[i + 4] \in {NL, EscNL} THEN i + 5
         ELSE IF s[i + 4] = "\r" /\ i + 5 <= Len(s) /\ s[i + 5] = NL THEN i + 6
         ELSE 0
    ELSE 0

\* The first closing fence at or after i, 0 without one (the lazy group).
ClosingAt(s, i) ==
    LET at == {j \in i..Len(s) : IsFenceAt(s, j)}
    IN  IF at = {} THEN 0 ELSE CHOOSE j \in at : \A k \in at : j <= k

\* extractMermaidBlocksFromRawHtml: the decoded, trimmed, non-empty payloads
\* of the matches from place i on.
RECURSIVE RawBlocksFrom(_, _)
RawBlocksFrom(s, i) ==
    LET at == {j \in i..Len(s) : OpeningEnd(s, j) # 0 /\ ClosingAt(s, OpeningEnd(s, j)) # 0}
    IN  IF at = {} THEN <<>>
        ELSE LET open == OpeningEnd(s, CHOOSE j \in at : \A k \in at : j <= k)
                 close == ClosingAt(s, open)
                 decoded == Trim(unescapeEmbeddedText(SubSeq(s, open, close - 1)))
             IN  (IF decoded # <<>> THEN <<decoded>> ELSE <<>>)
                    \o RawBlocksFrom(s, close + 3)

extractMermaidBlocksFromRawHtml(nodes) ==
    IF nodes = <<>> THEN <<>> ELSE RawBlocksFrom(SerializeAll(nodes), 1)

----------------------------------------------------------------------------
(* pickRawMermaidSourceForSvg (content.js 414-441)                         *)

\* String.prototype.toLowerCase, atom by atom.
LowerAll(s) == [i \in 1..Len(s) |-> Lower(s[i])]

\* word.includes(part) for the words of the model.
AtomIncludes(a, part) ==
    a = part \/ <<a, part>> \in {<<"statediagram", "state">>, <<"sequencediagram", "sequence">>}

\* s.includes(part) for a lower-cased s.
IncludesWord(s, part) == \E i \in 1..Len(s) : AtomIncludes(s[i], part)

\* The diagram type expected for the graphic.
ExpectedType(svg) ==
    LET className == LowerAll(AttrOrEmpty(svg, "class"))
        roleDesc == LowerAll(AttrOrEmpty(svg, "aria-roledescription"))
        e1 == IF IncludesWord(className, "statediagram") \/ IncludesWord(roleDesc, "state")
              THEN "state" ELSE "graph"
        e2 == IF IncludesWord(className, "sequencediagram") \/ IncludesWord(roleDesc, "sequence")
              THEN "sequence" ELSE e1
    IN  IF IncludesWord(className, "flowchart") \/ IncludesWord(roleDesc, "flowchart")
        THEN "graph" ELSE e2

\* String.prototype.split on line ends.
RECURSIVE SplitLines(_, _)
SplitLines(s, piece) ==
    IF s = <<>> THEN <<piece>>
    ELSE IF Head(s) = NL THEN <<piece>> \o SplitLines(Tail(s), <<>>)
         ELSE IF Head(s) = "\r" /\ Len(s) >= 2 /\ s[2] = NL
              THEN <<piece>> \o SplitLines(Tail(Tail(s)), <<>>)
              ELSE SplitLines(Tail(s), Append(piece, Head(s)))

\* The first non-blank line of src, trimmed and lower-cased ('' without one).
FirstLine(src) ==
    LET lines == SelectSeq([i \in 1..Len(SplitLines(src, <<>>)) |->
                               Trim(SplitLines(src, <<>>)[i])],
                           LAMBDA l : l # <<>>)
    IN  IF lines = <<>> THEN <<>> ELSE LowerAll(Head(lines))

\* lower.startsWith(word)
StartsWithWord(s, word) == s # <<>> /\ s[1] = word

matchesType(expected, src) ==
    LET lower == FirstLine(src)
    IN  CASE expected = "state" -> StartsWithWord(lower, "statediagram")
          [] expected = "sequence" -> StartsWithWord(lower, "sequencediagram")
          [] OTHER -> StartsWithWord(lower, "graph") \/ StartsWithWord(lower, "flowchart")

\* The candidate at the cursor, whatever its type.
pickRawAtCursor(svg, raws, startIndex) ==
    IF startIndex < Len(raws)
    THEN [source |-> raws[startIndex + 1], nextIndex |-> startIndex + 1, used |-> TRUE]
    ELSE [source |-> <<>>, nextIndex |-> startIndex, used |-> FALSE]

\* pickRawMermaidSourceForSvg(svg, raws, startIndex); startIndex and
\* nextIndex count from 0 as in the source.
pickRawMermaidSourceForSvg(svg, raws, startIndex) ==
    LET expected == ExpectedType(svg)
        hits == {i \in startIndex..(Len(raws) - 1) :
                    raws[i + 1] # <<>> /\ matchesType(expected, raws[i + 1])}
        fallback == IF startIndex < Len(raws) THEN raws[startIndex + 1] ELSE <<>>
    IN  IF hits # {}
        THEN LET i == CHOOSE h \in hits : \A k \in hits : h <= k
             IN  [source |-> raws[i + 1], nextIndex |-> i + 1, used |-> TRUE]
        ELSE IF fallback = <<>>
        THEN [source |-> <<>>, nextIndex |-> startIndex, used |-> FALSE]
        ELSE [source |-> fallback, nextIndex |-> startIndex + 1, used |-> TRUE]

----------------------------------------------------------------------------
(* svgToDataUri (content.js 524-540)                                       *)

SvgNamespace == "http://www.w3.org/2000/svg"
XlinkNamespace == "http://www.w3.org/1999/xlink"

\* XMLSerializer.serializeToString of an svg element of an HTML document:
\* the serializer declares the namespace of the element when the element
\* does not.
serializeToString(svg) ==
    Serialize(IF getAttribute(svg, "xmlns") # Null THEN svg
              ELSE [svg EXCEPT !.attrs = <<<<"xmlns", <<SvgNamespace>>>>>> \o @])

\* The test for a blank followed by xmlns= (content.js 528).
HasXmlns(s) ==
    \E i \in 1..(Len(s) - 2) : IsSpace(s[i]) /\ s[i + 1] = "xmlns" /\ s[i + 2] = "="

\* svgText.replace('<svg', '<svg xmlns=... xmlns:xlink=...'): the first place.
AddNamespaces(s) ==
    LET at == {i \in 1..(Len(s) - 1) : s[i] = "<" /\ s[i + 1] = "svg"}
    IN  IF at = {} THEN s
        ELSE LET i == CHOOSE k \in at : \A j \in at : k <= j
             IN  SubSeq(s, 1, i + 1)
                   \o <<" ", "xmlns", "=", "\"", SvgNamespace, "\"",
                        " ", "xmlns:xlink", "=", "\"", XlinkNamespace, "\"">>
                   \o SubSeq(s, i + 2, Len(s))

IsTagOpen(c) == c \in {"<", "</"}

\* The number of blanks from place i on.
RECURSIVE BlankRun(_, _)
BlankRun(s, i) == IF i <= Len(s) /\ IsSpace(s[i]) THEN 1 + BlankRun(s, i + 1) ELSE 0

\* svgText.replace(/>\s+</g, '><'), written without the backslash class:
\* the blanks between a ">" and the next "<" go.
RECURSIVE StripBetweenTags(_)
StripBetweenTags(s) ==
    IF s = <<>> THEN <<>>
    ELSE LET run == BlankRun(s, 2)
         IN  IF /\ Head(s) = ">"
                /\ run > 0
                /\ run + 2 <= Len(s)
                /\ IsTagOpen(s[run + 2])
             THEN <<">">> \o StripBetweenTags(SubSeq(s, run + 2, Len(s)))
             ELSE <<Head(s)>> \o StripBetweenTags(Tail(s))

\* encodeURIComponent and the two replaces after it, atom by atom.
PercentEncode(s) ==
    [i \in 1..Len(s) |->
        CASE s[i] = "<" -> "%3C"
          [] s[i] = "</" -> "%3C%2F"
          [] s[i] = ">" -> "%3E"
          [] s[i] = " " -> "%20"
          [] s[i] = NL -> "%0A"
          [] s[i] = "=" -> "%3D"
          [] s[i] = "\"" -> "%22"
          [] s[i] = "xmlns:xlink" -> "xmlns%3Axlink"
          [] s[i] = SvgNamespace -> "http%3A%2F%2Fwww.w3.org%2F2000%2Fsvg"
          [] s[i] = XlinkNamespace -> "http%3A%2F%2Fwww.w3.org%2F1999%2Fxlink"
          [] OTHER -> s[i]]

DataUriPrefix == "data:image/svg+xml;charset=utf-8,"

\* svgToDataUri(svg); serialized tells whether XMLSerializer returned or
\* threw.
svgToDataUri(svg, serialized) ==
    IF ~serialized THEN <<>>
    ELSE LET svgText == serializeToString(svg)
             withNs == IF HasXmlns(svgText) THEN svgText ELSE AddNamespaces(svgText)
         IN  <<DataUriPrefix>> \o PercentEncode(Trim(StripBetweenTags(withNs)))

----------------------------------------------------------------------------
(* normalizeContentHtml (content.js 284-412)                               *)

OmissionText == "Mermaid diagram omitted: source not found in page HTML"
OmissionNotice == <<"[", OmissionText, "]">>

MermaidImage(dataUri) ==
    El("img", <<<<"alt", <<"Mermaid diagram">>>>, <<"src", dataUri>>>>, <<>>)

MermaidPlaceholder == El("p", <<>>, <<Txt(OmissionNotice)>>)

MermaidPre(source) ==
    El("pre", <<<<"data-pagetomd-generated", <<"mermaid">>>>>>,
       <<El("code", <<<<"data-lang", <<"mermaid">>>>, <<"class", LanguageMermaid>>>>,
            <<Txt(source)>>)>>)

\* The state of the loop over the svgs.
\* detached holds the svgs the loop has taken out of their tree, each with
\* the path it had in the parsed body: an svg below one of them is still in
\* the list of the loop, and its turn sees the tree of the nearest of them.
SvgLoopStart(root) ==
    [root |-> root, detached |-> <<>>,
     rawMermaidIndex |-> 0, rawMermaidUsedCount |-> 0,
     mermaidSvgCount |-> 0, mermaidReplacedCount |-> 0,
     mermaidPlaceholderCount |-> 0, mermaidEmbeddedSvgCount |-> 0]

IsProperPrefix(q, p) == Len(q) < Len(p) /\ Prefix(p, Len(q)) = q

\* The place in st.detached of the nearest replaced svg above path p, 0 when
\* the node at p is still in the document.
Home(st, p) ==
    LET above == {k \in 1..Len(st.detached) : IsProperPrefix(st.detached[k].at, p)}
    IN  IF above = {} THEN 0
        ELSE CHOOSE k \in above :
                \A j \in above : Len(st.detached[j].at) <= Len(st.detached[k].at)

\* The tree the node of path p lives in, and its path in that tree.
TreeOf(st, p) == IF Home(st, p) = 0 THEN st.root ELSE st.detached[Home(st, p)].node
PathIn(st, p) ==
    IF Home(st, p) = 0 THEN p
    ELSE SubSeq(p, Len(st.detached[Home(st, p)].at) + 1, Len(p))

\* svg.replaceWith(m) for the svg of path p.
ReplaceWith(st, p, m) ==
    LET h == Home(st, p)
        svg == NodeAt(TreeOf(st, p), PathIn(st, p))
        trees == IF h = 0 THEN st.detached
                 ELSE [st.detached EXCEPT ![h].node = ReplaceAt(@, PathIn(st, p), m)]
    IN  [st EXCEPT !.root = IF h = 0 THEN ReplaceAt(@, p, m) ELSE @,
                   !.detached = Append(trees, [at |-> p, node |-> svg])]

\* A turn that leaves the svg in place when there is neither a source nor a
\* data URI.
SvgReplacedOrKept(st, p, source, dataUri) ==
    IF source = <<>>
    THEN IF dataUri # <<>>
         THEN [ReplaceWith(st, p, MermaidImage(dataUri))
                  EXCEPT !.mermaidEmbeddedSvgCount = @ + 1]
         ELSE st
    ELSE [ReplaceWith(st, p, MermaidPre(source))
             EXCEPT !.mermaidReplacedCount = @ + 1]

\* The end of one turn (content.js 321-346): the svg at p gives way to the
\* code block of its source, to the image of its data URI or to the notice.
SvgReplaced(st, p, source, dataUri) ==
    IF source = <<>>
    THEN IF dataUri # <<>>
         THEN [ReplaceWith(st, p, MermaidImage(dataUri))
                  EXCEPT !.mermaidEmbeddedSvgCount = @ + 1]
         ELSE [ReplaceWith(st, p, MermaidPlaceholder)
                  EXCEPT !.mermaidPlaceholderCount = @ + 1]
    ELSE [ReplaceWith(st, p, MermaidPre(source))
             EXCEPT !.mermaidReplacedCount = @ + 1]

\* The middle of one turn (content.js 309-320): found is what
\* extractMermaidSource returned and pick what pickRawMermaidSourceForSvg
\* returns when it is asked.
SvgSourced(st, p, found, pick, rawCount, dataUri) ==
    IF found = <<>> /\ st.rawMermaidIndex < rawCount
    THEN SvgReplaced([st EXCEPT !.mermaidSvgCount = @ + 1,
                                !.rawMermaidIndex = pick.nextIndex,
                                !.rawMermaidUsedCount = IF pick.used THEN @ + 1 ELSE @],
                     p, pick.source, dataUri)
    ELSE SvgReplaced([st EXCEPT !.mermaidSvgCount = @ + 1], p, found, dataUri)

\* One turn of the loop (content.js 297-347) for the svg at path p; unserial
\* holds the paths of the svgs XMLSerializer throws on.
SvgTurn(st, p, svg, raws, unserial) ==
    IF ~IsMermaidSvg(svg) THEN st
    ELSE SvgSourced(st, p, extractMermaidSourceIn(TreeOf(st, p), PathIn(st, p), st.root),
                    pickRawMermaidSourceForSvg(svg, raws, st.rawMermaidIndex),
                    Len(raws), svgToDataUri(svg, p \notin unserial))

SvgLoopBody(st, p, raws, unserial) ==
    SvgTurn(st, p, NodeAt(TreeOf(st, p), PathIn(st, p)), raws, unserial)

RECURSIVE SvgLoop(_, _, _, _)
SvgLoop(st, svgs, raws, unserial) ==
    IF svgs = <<>> THEN st
    ELSE SvgLoop(SvgLoopBody(st, Head(svgs), raws, unserial), Tail(svgs), raws, unserial)

\* querySelector of one tag below the node at p, as a sequence of at most
\* one path.
FirstPathWithTag(root, p, tags) ==
    LET found == SelectSeq(PathsBelow(root, p), LAMBDA q : NodeAt(root, q).tag \in tags)
    IN  IF found = <<>> THEN <<>> ELSE <<Head(found)>>

\* this.detectLanguage(codeElement) for the code element at path q.
detectLanguageAt(root, q) ==
    LET pre == Closest(root, q, LAMBDA m : m.tag = "pre")
    IN  detectLanguage(NodeAt(root, q), IF pre = <<>> THEN <<>> ELSE <<NodeAt(root, pre[1])>>)

\* detectLanguageForPre (content.js 542-556) for the pre at path p.
detectLanguageForPre(root, p) ==
    LET codeElement == FirstPathWithTag(root, p, {"code"})
    IN  IF codeElement # <<>> THEN detectLanguageAt(root, codeElement[1])
        ELSE LanguageOfPre(NodeAt(root, p))

\* The three replaces of content.js 391-393.
RECURSIVE NormalizeLineEnds(_)
NormalizeLineEnds(s) ==
    IF s = <<>> THEN <<>>
    ELSE IF Head(s) = "\r"
         THEN <<NL>> \o NormalizeLineEnds(IF Len(s) >= 2 /\ s[2] = NL THEN Tail(Tail(s)) ELSE Tail(s))
         ELSE <<Head(s)>> \o NormalizeLineEnds(Tail(s))

Nbsp == "&nbsp;"
ReplaceNbsp(s) == [i \in 1..Len(s) |-> IF s[i] = Nbsp THEN " " ELSE s[i]]

\* A strip of one newline at the end only (/\n$/).
StripTrailingNewlinesOnce(s) ==
    IF s # <<>> /\ s[Len(s)] = NL THEN SubSeq(s, 1, Len(s) - 1) ELSE s

RECURSIVE StripTrailingNewlines(_)
StripTrailingNewlines(s) ==
    IF s # <<>> /\ s[Len(s)] = NL THEN StripTrailingNewlines(SubSeq(s, 1, Len(s) - 1)) ELSE s

\* The code element that takes the place of a pre's children (content.js
\* 395-402).
CanonicalCode(language, text) ==
    El("code",
       IF Truthy(language)
       THEN <<<<"data-lang", language>>, <<"class", <<"language", "-">> \o language>>>>
       ELSE <<>>,
       <<Txt(text)>>)

\* One turn of the loop over the pres (content.js 381-403) for the pre at
\* path p. The document is one DOMParser made: nothing of it is rendered,
\* innerText is textContent and the test of line 387 never passes.
CanonicalPre(root, p) ==
    LET pre == NodeAt(root, p)
        existing == FirstWithTag(pre, {"code"})
        codeText == IF existing # <<>> THEN textContent(existing[1]) ELSE textContent(pre)
    IN  [pre EXCEPT !.kids =
            <<CanonicalCode(detectLanguageForPre(root, p),
                            StripTrailingNewlines(ReplaceNbsp(NormalizeLineEnds(codeText))))>>]

\* The pres are taken in document order; a pre inside a pre is detached when
\* the outer one is emptied, and rewriting it changes nothing of the result.
RECURSIVE PreLoop(_, _)
PreLoop(root, pres) ==
    IF pres = <<>> THEN root
    ELSE IF HasPreAncestor(root, Head(pres)) THEN PreLoop(root, Tail(pres))
         ELSE PreLoop(ReplaceAt(root, Head(pres), CanonicalPre(root, Head(pres))), Tail(pres))

PathsWithTag(root, tag) ==
    SelectSeq(PathsBelow(root, <<>>), LAMBDA q : NodeAt(root, q).tag = tag)

\* The state of the svg loop at its end, for the HTML `nodes`.
NormalizeSvgs(nodes, unserial) ==
    LET body == El("body", <<>>, nodes)
    IN  SvgLoop(SvgLoopStart(body), PathsWithTag(body, "svg"),
                extractMermaidBlocksFromRawHtml(nodes), unserial)

\* The loop over the pres of the document whose body is root.
NormalizePres(root) == PreLoop(root, PathsWithTag(root, "pre")).kids

\* normalizeContentHtml(html): body.innerHTML after the two loops.
normalizeContentHtml(nodes, unserial) == NormalizePres(NormalizeSvgs(nodes, unserial).root)

----------------------------------------------------------------------------
(* this.turndown.turndown(html) (content.js 274): the parse of the HTML    *)
(* under a root element, the collapse of its whitespace, the walk of the   *)
(* tree from the leaves up and the trim of the result.                     *)

isBlock(n) == n.tag \in BlockTags
isVoid(n) == n.tag \in VoidTags

\* The option preformattedCode is set: pre and code keep their whitespace.
isPre(n) == n.tag \in {"pre", "code"}

\* node.isCode: the node or one of its ancestors is a code element.
isCode(root, p) == \E k \in 0..Len(p) : NodeAt(root, Prefix(p, k)).tag = "code"

\* text.replace(/[ \r\n\t]+/g, ' ')
RECURSIVE CollapseRuns(_)
CollapseRuns(s) ==
    IF s = <<>> THEN <<>>
    ELSE IF IsSpace(Head(s))
         THEN <<" ">> \o CollapseRuns(SubSeq(s, 1 + BlankRun(s, 1), Len(s)))
         ELSE <<Head(s)>> \o CollapseRuns(Tail(s))

EndsWithSpace(s) == s # <<>> /\ s[Len(s)] = " "
DropLastSpace(s) == IF EndsWithSpace(s) THEN SubSeq(s, 1, Len(s) - 1) ELSE s

\* The visits of collapseWhitespace below the node at p, in order: a text
\* node once, an element when the walk enters it and, when it has children
\* and is no pre or code, once more when the walk leaves it.
RECURSIVE Visits(_, _)
Visits(root, p) ==
    LET n == NodeAt(root, p)
    IN  ConcatAll([i \in 1..Len(n.kids) |->
           LET q == Append(p, i)
               k == n.kids[i]
           IN  IF IsText(k) \/ isPre(k) \/ k.kids = <<>> THEN <<q>>
               ELSE <<q>> \o Visits(root, q) \o <<q>>])

\* The state of the walk: the text nodes seen with their new data, the place
\* of prevText among them (0: null) and keepLeadingWs.
CollapseStart == [seen |-> <<>>, prevText |-> 0, keepLeadingWs |-> FALSE]

TrimPrevText(st) ==
    IF st.prevText = 0 THEN st.seen
    ELSE [st.seen EXCEPT ![st.prevText].data = DropLastSpace(@)]

CollapseVisit(st, root, q) ==
    LET n == NodeAt(root, q)
    IN  IF IsText(n)
        THEN LET collapsed == CollapseRuns(n.text)
                 prevData == IF st.prevText = 0 THEN <<>> ELSE st.seen[st.prevText].data
                 text == IF /\ st.prevText = 0 \/ EndsWithSpace(prevData)
                            /\ ~st.keepLeadingWs
                            /\ collapsed # <<>> /\ collapsed[1] = " "
                         THEN Tail(collapsed) ELSE collapsed
             IN  IF text = <<>>
                 THEN [st EXCEPT !.seen = Append(@, [path |-> q, data |-> <<>>, removed |-> TRUE])]
                 ELSE [st EXCEPT !.seen = Append(@, [path |-> q, data |-> text, removed |-> FALSE]),
                                 !.prevText = Len(st.seen) + 1]
        ELSE IF isBlock(n) \/ n.tag = "br"
        THEN [seen |-> TrimPrevText(st), prevText |-> 0, keepLeadingWs |-> FALSE]
        ELSE IF isVoid(n) \/ isPre(n)
        THEN [st EXCEPT !.prevText = 0, !.keepLeadingWs = TRUE]
        ELSE IF st.prevText # 0 THEN [st EXCEPT !.keepLeadingWs = FALSE]
        ELSE st

RECURSIVE CollapseWalk(_, _, _)
CollapseWalk(st, root, visits) ==
    IF visits = <<>> THEN st
    ELSE CollapseWalk(CollapseVisit(st, root, Head(visits)), root, Tail(visits))

\* The end of the walk: the last text loses its trailing blank and goes when
\* nothing is left of it.
CollapseEnd(st) ==
    IF st.prevText = 0 THEN st.seen
    ELSE LET data == DropLastSpace(st.seen[st.prevText].data)
         IN  [st.seen EXCEPT ![st.prevText].data = data,
                             ![st.prevText].removed = (data = <<>>)]

\* The tree with the new data of its text nodes and without the removed.
RECURSIVE Collapsed(_, _, _)
Collapsed(root, p, seen) ==
    LET n == NodeAt(root, p)
        at == {i \in 1..Len(seen) : seen[i].path = p}
        gone(i) == \E j \in 1..Len(seen) : seen[j].path = Append(p, i) /\ seen[j].removed
        kept == SelectSeq([i \in 1..Len(n.kids) |-> i], LAMBDA i : ~gone(i))
    IN  IF IsText(n)
        THEN IF at = {} THEN n ELSE Txt(seen[CHOOSE i \in at : TRUE].data)
        ELSE [n EXCEPT !.kids = [j \in 1..Len(kept) |-> Collapsed(root, Append(p, kept[j]), seen)]]

collapseWhitespace(root) ==
    Collapsed(root, <<>>, CollapseEnd(CollapseWalk(CollapseStart, root, Visits(root, <<>>))))

\* RootNode(input): the HTML under the root element Turndown parses it into.
RootNode(nodes) ==
    collapseWhitespace(El("x-turndown", <<<<"id", <<"turndown-root">>>>>>, nodes))

\* TurndownService.escape, on the characters the model uses: the ones
\* escaped wherever they stand and the ones escaped at the start of a text.
EscapeAtom(c) ==
    CASE c = "\\" -> <<"\\", "\\">>
      [] c = "*" -> <<"\\", "*">>
      [] c = BT -> <<"\\", BT>>
      [] c = "[" -> <<"\\", "[">>
      [] c = "]" -> <<"\\", "]">>
      [] c = "_" -> <<"\\", "_">>
      [] OTHER -> <<c>>

escape(s) ==
    LET first == IF s # <<>> /\ (s[1] \in {"-", ">", "="} \/ (Len(s) >= 2 /\ s[1] = "#" /\ s[2] = " "))
                 THEN <<"\\">> ELSE <<>>
    IN  first \o ConcatAll([i \in 1..Len(s) |-> EscapeAtom(s[i])])

RECURSIVE TrimLeadingNewlines(_)
TrimLeadingNewlines(s) ==
    IF s # <<>> /\ Head(s) = NL THEN TrimLeadingNewlines(Tail(s)) ELSE s

\* join(output, replacement): the newlines where the two meet become at most
\* two.
join(output, replacement) ==
    LET s1 == StripTrailingNewlines(output)
        s2 == TrimLeadingNewlines(replacement)
        nls == Max(Len(output) - Len(s1), Len(replacement) - Len(s2))
    IN  s1 \o Repeat(NL, Min(nls, 2)) \o s2

\* The whitespace at the two ends of a text.
RECURSIVE LeadingBlanks(_)
LeadingBlanks(s) ==
    IF s # <<>> /\ IsSpace(Head(s)) THEN <<Head(s)>> \o LeadingBlanks(Tail(s)) ELSE <<>>

TrailingBlanks(s) ==
    IF IsBlankString(s) THEN <<>>
    ELSE SubSeq(s, Len(TrimEnd(s)) + 1, Len(s))

\* isFlankedByWhitespace(side, node): the sibling at that side ends (left) or
\* starts (right) with a blank.
isFlankedByWhitespace(side, root, p) ==
    LET parent == NodeAt(root, Prefix(p, Len(p) - 1))
        i == p[Len(p)]
        j == IF side = "left" THEN i - 1 ELSE i + 1
        sibling == parent.kids[j]
        text == IF IsText(sibling) THEN sibling.text ELSE textContent(sibling)
    IN  /\ j \in 1..Len(parent.kids)
        /\ IsText(sibling) \/ (sibling.tag # "code" /\ ~isBlock(sibling))
        /\ text # <<>>
        /\ IF side = "left" THEN text[Len(text)] = " " ELSE text[1] = " "

\* node.flankingWhitespace
flankingWhitespace(root, p) ==
    LET n == NodeAt(root, p)
        text == textContent(n)
        leading == LeadingBlanks(text)
        trailing == TrailingBlanks(text)
    IN  IF isBlock(n) \/ isCode(root, p) THEN [leading |-> <<>>, trailing |-> <<>>]
        ELSE [leading |-> IF leading # <<>> /\ isFlankedByWhitespace("left", root, p)
                          THEN <<>> ELSE leading,
              trailing |-> IF trailing # <<>> /\ isFlankedByWhitespace("right", root, p)
                           THEN <<>> ELSE trailing]

Hashes(level) == Repeat("#", level)
Block(s) == <<NL, NL>> \o s \o <<NL, NL>>

\* preformattedCode.replacement (content.js 58-75)
preformattedCodeRule(root, p) ==
    LET codeElement == FirstPathWithTag(root, p, {"code"})
        language == IF codeElement # <<>> THEN detectLanguageAt(root, codeElement[1]) ELSE <<>>
        text == IF codeElement # <<>> THEN textContent(NodeAt(root, codeElement[1]))
                ELSE textContent(NodeAt(root, p))
    IN  IF Trim(text) = <<>> THEN <<>> ELSE preformattedCodeReplacement(text, language)

\* mermaidSvg.replacement (content.js 92-97)
mermaidSvgRule(root, p) ==
    LET source == extractMermaidSource(root, p)
        f == computeFence(source)
    IN  <<NL, NL>> \o f \o <<"mermaid", NL>> \o source \o <<NL>> \o f \o <<NL, NL>>

\* inlineCode.replacement (content.js 105-112)
inlineCodeRule(n) ==
    LET text == textContent(n)
    IN  IF text = <<>> THEN <<>>
        ELSE IF BT \in Range(text) THEN <<BT, BT>> \o text \o <<BT, BT>>
        ELSE <<BT>> \o text \o <<BT>>

\* cleanHeadings.replacement and headingLinks.replacement (content.js
\* 117-122, 140-145)
headingRule(n) == Block(Hashes(HeadingLevel(n)) \o <<" ">> \o Trim(textContent(n)))

\* linkedHeadings.replacement (content.js 150-156)
linkedHeadingsRule(n) ==
    LET heading == FirstWithTag(n, Range(HeadingTags))
        level == IF heading # <<>> THEN HeadingLevel(heading[1]) ELSE 1
        text == IF heading # <<>> THEN textContent(heading[1]) ELSE textContent(n)
    IN  Block(Hashes(level) \o <<" ">> \o Trim(text))

\* figure.replacement (content.js 165-185)
figureRule(converted, n) ==
    LET img == FirstWithTag(n, {"img"})
        caption == FirstWithTag(n, {"figcaption"})
        m1 == IF img = <<>> THEN <<>>
              ELSE <<"![">> \o AttrOrEmpty(img[1], "alt") \o <<"](">>
                      \o AttrOrEmpty(img[1], "src") \o <<")", NL>>
        m2 == IF caption = <<>> THEN <<>>
              ELSE <<"*">> \o Trim(textContent(caption[1])) \o <<"*", NL>>
        m3 == IF Trim(converted) = <<>> THEN <<>> ELSE Trim(converted) \o <<NL>>
    IN  m1 \o m2 \o m3 \o <<NL>>

\* rule.replacement(content, node) of the rule forNode chose. The rules for
\* lists, tables, quotes and struck text apply to elements no document of
\* the model holds and pass their content on here.
Replacement(key, converted, root, p) ==
    LET n == NodeAt(root, p)
    IN  CASE key = "figure" -> figureRule(converted, n)
          [] key = "linkedHeadings" -> linkedHeadingsRule(n)
          [] key \in {"headingLinks", "cleanHeadings"} -> headingRule(n)
          [] key = "inlineCode" -> inlineCodeRule(n)
          [] key = "mermaidSvg" -> mermaidSvgRule(root, p)
          [] key = "preformattedCode" -> preformattedCodeRule(root, p)
          [] key = "paragraph" -> Block(converted)
          [] key = "lineBreak" -> <<" ", " ", NL>>
          [] key = "heading" -> Block(Hashes(HeadingLevel(n)) \o <<" ">> \o converted)
          [] key = "horizontalRule" -> Block(<<"-", "-", "-">>)
          [] key = "inlineLink" ->
                <<"[">> \o converted \o <<"](">> \o AttrOrEmpty(n, "href")
                   \o (IF Truthy(getAttribute(n, "title"))
                       THEN <<" ", "\"">> \o getAttribute(n, "title") \o <<"\"">> ELSE <<>>)
                   \o <<")">>
          [] key = "emphasis" ->
                IF Trim(converted) = <<>> THEN <<>> ELSE <<"*">> \o converted \o <<"*">>
          [] key = "strong" ->
                IF Trim(converted) = <<>> THEN <<>> ELSE <<"*", "*">> \o converted \o <<"*", "*">>
          [] key = "image" ->
                IF AttrOrEmpty(n, "src") = <<>> THEN <<>>
                ELSE <<"![">> \o AttrOrEmpty(n, "alt") \o <<"](">> \o AttrOrEmpty(n, "src")
                        \o (IF Truthy(getAttribute(n, "title"))
                            THEN <<" ", "\"">> \o getAttribute(n, "title") \o <<"\"">> ELSE <<>>)
                        \o <<")">>
          [] key = "#blank" -> IF isBlock(n) THEN <<NL, NL>> ELSE <<>>
          [] key = "#remove" -> <<>>
          [] key = "#default" -> IF isBlock(n) THEN Block(converted) ELSE converted
          [] OTHER -> converted

\* process(parentNode) and replacementForNode(node): the children of the
\* node at p, converted and joined from left to right.
RECURSIVE process(_, _, _)
replacementForNode(service, root, q) ==
    LET n == NodeAt(root, q)
        rule == forNode(service, n, NodeAt(root, Prefix(q, Len(q) - 1)))
        inner == process(service, root, q)
        whitespace == flankingWhitespace(root, q)
        converted == IF whitespace.leading # <<>> \/ whitespace.trailing # <<>>
                   THEN Trim(inner) ELSE inner
    IN  whitespace.leading \o Replacement(rule, converted, root, q) \o whitespace.trailing

RECURSIVE ProcessFrom(_, _, _, _, _)
ProcessFrom(service, root, p, i, output) ==
    LET n == NodeAt(root, p)
        q == Append(p, i)
        k == n.kids[i]
        replacement == IF IsText(k)
                       THEN IF isCode(root, q) THEN k.text ELSE escape(k.text)
                       ELSE replacementForNode(service, root, q)
    IN  IF i > Len(n.kids) THEN output
        ELSE ProcessFrom(service, root, p, i + 1, join(output, replacement))

process(service, root, p) == ProcessFrom(service, root, p, 1, <<>>)

RECURSIVE TrimLeadingControls(_)
TrimLeadingControls(s) ==
    IF s # <<>> /\ Head(s) \in {"\t", "\r", NL} THEN TrimLeadingControls(Tail(s)) ELSE s

\* postProcess(output): no rule of the service appends anything (the links
\* are inlined); the ends are trimmed.
postProcess(output) == TrimEnd(TrimLeadingControls(output))

\* TurndownService.turndown(input) for the HTML `nodes`.
turndownHtml(service, nodes) ==
    IF nodes = <<>> THEN <<>>
    ELSE postProcess(process(service, RootNode(nodes), <<>>))

----------------------------------------------------------------------------
(* cleanupMarkdown (content.js 607-609)                                    *)

RECURSIVE NewlineRun(_, _)
NewlineRun(s, i) == IF i <= Len(s) /\ s[i] = NL THEN 1 + NewlineRun(s, i + 1) ELSE 0

\* markdown.replace(/\n{4,}/g, '\n\n'), said without the pattern: a run of
\* four or more newlines becomes two.
RECURSIVE CollapseNewlines(_)
CollapseNewlines(s) ==
    IF s = <<>> THEN <<>>
    ELSE LET run == NewlineRun(s, 1)
         IN  IF run >= 4 THEN <<NL, NL>> \o CollapseNewlines(SubSeq(s, run + 1, Len(s)))
             ELSE IF run >= 1 THEN SubSeq(s, 1, run) \o CollapseNewlines(SubSeq(s, run + 1, Len(s)))
             ELSE <<Head(s)>> \o CollapseNewlines(Tail(s))

IsBlankOrTab(c) == c \in {" ", "\t"}

\* The characters before which $ matches under the m flag.
LineTerminators == {NL, "\r"}

\* The blanks and tabs before each line end and before the end go.
RECURSIVE StripLineEnds(_)
StripLineEnds(s) ==
    IF s = <<>> THEN <<>>
    ELSE LET run == CHOOSE r \in 0..Len(s) :
                       /\ \A i \in 1..r : IsBlankOrTab(s[i])
                       /\ r = Len(s) \/ ~IsBlankOrTab(s[r + 1])
         IN  IF run = 0 THEN <<Head(s)>> \o StripLineEnds(Tail(s))
             ELSE IF run = Len(s) \/ s[run + 1] \in LineTerminators
                  THEN StripLineEnds(SubSeq(s, run + 1, Len(s)))
                  ELSE SubSeq(s, 1, run) \o StripLineEnds(SubSeq(s, run + 1, Len(s)))

\* A post-processor that leaves the ends of the lines as they are.
cleanupMarkdownKeepLineEnds(md) == Trim(CollapseNewlines(md))

cleanupMarkdown(md) == Trim(StripLineEnds(CollapseNewlines(md)))

----------------------------------------------------------------------------
(* processPage (content.js 20-26, 191-225): the listener and the steps of  *)
(* one invocation. JavaScript runs an invocation to its first await        *)
(* without interleaving; pc is the step the running invocation is at.      *)

\* What the heuristic does in one invocation: it throws, or parse() returns
\* the result def.
Threw == [kind |-> "throw", def |-> DefNull]
Returned(def) == [kind |-> "result", def |-> def]

MaxInvocations == 2

\* processPage's catch block (content.js 201-204) for the error thrown at
\* `stage` of invocation i: console.error, then alert.
Caught(i, stage) ==
    /\ errors' = errors \cup {[inv |-> i, stage |-> stage]}
    /\ alerts' = alerts \cup {[inv |-> i, stage |-> stage]}

\* A catch block that logs the error and shows no alert.
processPageCatchSilent(stage) ==
    /\ pc' = "idle"
    /\ errors' = errors \cup {[inv |-> inv, stage |-> stage]}
    /\ UNCHANGED alerts

\* The catch block for an error thrown before the await: the running
\* invocation is over.
processPageCatch(stage) ==
    /\ pc' = "idle"
    /\ Caught(inv, stage)

\* A listener that may run at any point of a running invocation.
ReceiveMessageAnytime ==
    /\ inv < MaxInvocations
    /\ \E action \in {"trigger_conversion", "other"} :
          IF action = "trigger_conversion"
          THEN /\ \E o \in oracle : heuristic' = o
               /\ inv' = inv + 1
               /\ pc' = "extract"
               /\ content' = NoHtml
               /\ metadata' = NoMetadata
               /\ markdown' = <<>>
               /\ sourceHtml' = NoHtml
               /\ message' = <<>>
               /\ ignored' = ignored
          ELSE /\ ignored' = TRUE
               /\ UNCHANGED <<heuristic, inv, pc, content, metadata, markdown, sourceHtml,
                              message>>
    /\ UNCHANGED <<doc, oracle, defuddleResult, defuddleHtml, sent, alerts,
                   errors, awaiting, turndown>>
    /\ UNCHANGED <<varsFence, varsCall, varsDownloader>>

\* The runtime.onMessage listener (content.js 21-25): a trigger_conversion
\* message starts processPage, any other message is ignored.
ReceiveMessage ==
    /\ pc = "idle"
    /\ inv < MaxInvocations
    /\ \E action \in {"trigger_conversion", "other"} :
          IF action = "trigger_conversion"
          THEN /\ \E o \in oracle : heuristic' = o
               /\ inv' = inv + 1
               /\ pc' = "extract"
               /\ content' = NoHtml
               /\ metadata' = NoMetadata
               /\ markdown' = <<>>
               /\ sourceHtml' = NoHtml
               /\ message' = <<>>
               /\ ignored' = ignored
          ELSE /\ ignored' = TRUE
               /\ UNCHANGED <<heuristic, inv, pc, content, metadata, markdown, sourceHtml,
                              message>>
    /\ UNCHANGED <<doc, oracle, defuddleResult, defuddleHtml, sent, alerts,
                   errors, awaiting, turndown>>
    /\ UNCHANGED <<varsFence, varsCall, varsDownloader>>

\* extractMainContent (content.js 207-225).
ExtractMainContentStep ==
    /\ pc = "extract"
    /\ IF heuristic.kind = "result"
       THEN /\ defuddleResult' = heuristic.def
            /\ defuddleHtml' = IF heuristic.def.nul THEN NoHtml ELSE heuristic.def.content
       ELSE UNCHANGED <<defuddleResult, defuddleHtml>>
    /\ IF heuristic.kind = "result" /\ HtmlTruthy(heuristic.def.content)
       THEN \* parsedDoc.body of the parsed content
            /\ content' = Html(heuristic.def.content.nodes)
            /\ pc' = "metadata"
            /\ UNCHANGED <<errors, alerts>>
       ELSE IF doc.hasBody
            THEN \* document.body.cloneNode(true)
                 /\ content' = Html(doc.body)
                 /\ pc' = "metadata"
                 /\ UNCHANGED <<errors, alerts>>
            ELSE \* document.body is null: cloneNode throws a TypeError
                 /\ processPageCatch("extract")
                 /\ UNCHANGED content
    /\ UNCHANGED <<doc, oracle, inv, heuristic, metadata, markdown, sourceHtml,
                   sent, awaiting, ignored, turndown,
                   message>>
    /\ UNCHANGED <<varsFence, varsCall, varsDownloader>>

\* The converter right after its construction (content.js 7-18), no
\* invocation started.
FreshConverter ==
    /\ defuddleResult = DefNull
    /\ defuddleHtml = NoHtml
    /\ pc = "idle"
    /\ inv = 0
    /\ heuristic = Threw
    /\ content = NoHtml
    /\ metadata = NoMetadata
    /\ markdown = <<>>
    /\ sourceHtml = NoHtml
    /\ sent = {}
    /\ alerts = {}
    /\ errors = {}
    /\ awaiting = {}
    /\ ignored = FALSE
    /\ turndown = initializeConverter
    /\ message = <<>>

EmptyDocument ==
    [hasBody |-> TRUE, body |-> <<>>, title |-> <<>>, hostname |-> <<"example.org">>,
     meta |-> [n \in MetaNames |-> Null], tagLinks |-> <<>>]

\* No page: the variables of the page at rest.
NoPage ==
    /\ doc = EmptyDocument
    /\ oracle = {Threw}
    /\ FreshConverter

\* The object logged as '[PageToMD] svg scan' (content.js 367-375) at the
\* end st of the loop over the svgs, rawCount being rawMermaidSources.length.
SvgScan(st, svgCount, rawCount) ==
    [svgCount |-> svgCount,
     mermaidSvgCount |-> st.mermaidSvgCount,
     mermaidReplacedCount |-> st.mermaidReplacedCount,
     mermaidPlaceholderCount |-> st.mermaidPlaceholderCount,
     mermaidEmbeddedSvgCount |-> st.mermaidEmbeddedSvgCount,
     rawMermaidSourceCount |-> rawCount,
     rawMermaidUsedCount |-> st.rawMermaidUsedCount]

NoScan == SvgScan(SvgLoopStart(<<>>), 0, 0)

\* No loop over the svgs is running.
NoLoop == [st |-> SvgLoopStart(<<>>), turn |-> 0]

\* The background script right after its construction (background.js 4-15):
\* no message received, nothing downloaded.
NoDownloader ==
    /\ received = <<>>
    /\ downloads = <<>>
    /\ objectUrls = {}
    /\ timers = {}
    /\ responses = <<>>

\* No function applied on its own.
NoCall ==
    /\ fn = "none"
    /\ arg = <<>>
    /\ ret = <<>>
    /\ threw = {}
    /\ scan = NoScan
    /\ loop = NoLoop

NoFence ==
    /\ code = <<>>
    /\ fence = <<>>
    /\ emitted = <<>>

\* const metadata = this.extractMetadata() (content.js 196).
ExtractMetadataStep ==
    /\ pc = "metadata"
    /\ IF doc.hasBody
       THEN /\ metadata' = extractMetadata(doc, defuddleResult)
            /\ pc' = "convert"
            /\ UNCHANGED <<errors, alerts>>
       ELSE \* doc.body.textContent (content.js 667) throws a TypeError
            /\ processPageCatch("metadata")
            /\ UNCHANGED metadata
    /\ UNCHANGED <<doc, oracle, defuddleResult, defuddleHtml, inv, heuristic,
                   content, markdown, sourceHtml, sent, awaiting, ignored, turndown,
                   message>>
    /\ UNCHANGED <<varsFence, varsCall, varsDownloader>>

\* document.querySelector of the four selectors of content.js 237-239: the
\* element is an svg whose id starts with mermaid-, whose class list holds
\* mermaid or flowchart, or whose aria-roledescription contains flowchart.
IsPageMermaidSvg(n) ==
    /\ n.tag = "svg"
    /\ \/ StartsWithMermaidDash(AttrOrEmpty(n, "id"))
       \/ HasClass(n, <<"mermaid">>)
       \/ HasClass(n, <<"flowchart">>)
       \/ "flowchart" \in Range(AttrOrEmpty(n, "aria-roledescription"))

pageHasMermaidSvg(d) ==
    d.hasBody /\ \E i \in 1..Len(d.body) :
                    \/ IsPageMermaidSvg(d.body[i])
                    \/ \E k \in Range(Descendants(d.body[i])) : IsPageMermaidSvg(k)

\* defuddleSeemsToStripSvg (content.js 241-246)
defuddleSeemsToStripSvg(d, defHtml) ==
    /\ HtmlTruthy(defHtml)
    /\ pageHasMermaidSvg(d)
    /\ ~IncludesSvgTag(defHtml.nodes)
    /\ ~IncludesMermaidDash(defHtml.nodes)

\* const sourceHtml (content.js 248)
SourceHtml(d, defHtml, contentElement) ==
    IF defuddleSeemsToStripSvg(d, defHtml)
    THEN (IF d.hasBody THEN Html(d.body) ELSE Html(<<>>))
    ELSE IF HtmlTruthy(defHtml) THEN defHtml
    ELSE Html(contentElement.nodes)

\* The svgs XMLSerializer may be asked to write for the HTML html: it
\* returns or throws for each.
SvgPaths(html) == Range(PathsWithTag(El("body", <<>>, html.nodes), "svg"))

\* convertToMarkdown (content.js 227-282) past its guard: unserial holds the
\* svgs XMLSerializer throws on.
convertToMarkdown(service, d, defHtml, contentElement, unserial) ==
    cleanupMarkdown(turndownHtml(service,
        normalizeContentHtml(SourceHtml(d, defHtml, contentElement).nodes, unserial)))

\* A normalization that rewrites the tree it is given the HTML of, the live
\* body when the HTML is the live body's.
NormalizeInPlace(d, html, unserial) ==
    IF d.hasBody /\ html = Html(d.body)
    THEN [d EXCEPT !.body = normalizeContentHtml(html.nodes, unserial)]
    ELSE d

\* The live document after normalizeContentHtml(html) (content.js 284-286):
\* the function parses the string html into a document of its own and
\* rewrites that one, so the live document d keeps its tree.
LiveDocumentAfterNormalize(d, html, unserial) == d

\* const markdown = this.convertToMarkdown(content) (content.js 197): the
\* guard of line 228 throws, the transducer throws, or the Markdown is there.
ConvertStep ==
    /\ pc = "convert"
    /\ \/ /\ ~turndown.ready
          /\ processPageCatch("convert")
          /\ UNCHANGED <<doc, sourceHtml, markdown>>
       \/ /\ turndown.ready
          /\ \E throws \in BOOLEAN :
                IF throws
                THEN /\ processPageCatch("convert")
                     /\ UNCHANGED <<doc, sourceHtml, markdown>>
                ELSE \E unserial \in SUBSET SvgPaths(SourceHtml(doc, defuddleHtml, content)) :
                        /\ sourceHtml' = SourceHtml(doc, defuddleHtml, content)
                        /\ markdown' = convertToMarkdown(turndown, doc, defuddleHtml,
                                                         content, unserial)
                        /\ doc' = LiveDocumentAfterNormalize(doc,
                                      SourceHtml(doc, defuddleHtml, content), unserial)
                        /\ pc' = "send"
                        /\ UNCHANGED <<errors, alerts>>
    /\ UNCHANGED <<oracle, defuddleResult, defuddleHtml, inv, heuristic,
                   content, metadata, sent, awaiting, ignored, turndown,
                   message>>
    /\ UNCHANGED <<varsFence, varsCall, varsDownloader>>

\* A message without the metadata.
sendToBackgroundBare(md, meta) ==
    [type |-> "DOWNLOAD_MARKDOWN", data |-> [markdown |-> md, metadata |-> NoMetadata]]

\* The message sendToBackground builds (content.js 697-700).
sendToBackground(md, meta) ==
    [type |-> "DOWNLOAD_MARKDOWN", data |-> [markdown |-> md, metadata |-> meta]]

\* sendToBackground (content.js 199, 696-701): the message goes out and the
\* invocation is suspended at the await; the listener is free again.
SendStep ==
    /\ pc = "send"
    /\ message' = Append(message, sendToBackground(markdown, metadata))
    /\ sent' = sent \cup {inv}
    /\ awaiting' = awaiting \cup {inv}
    /\ pc' = "idle"
    /\ UNCHANGED <<doc, oracle, defuddleResult, defuddleHtml, inv, heuristic,
                   content, metadata, markdown, sourceHtml, alerts, errors,
                   ignored, turndown>>
    /\ UNCHANGED <<varsFence, varsCall, varsDownloader>>

\* The promise of sendMessage settles for a suspended invocation: resolved,
\* processPage returns; rejected, its catch block runs.
SendSettles ==
    /\ pc = "idle"
    /\ \E i \in awaiting :
          /\ awaiting' = awaiting \ {i}
          /\ \E rejected \in BOOLEAN :
                IF rejected THEN Caught(i, "send") ELSE UNCHANGED <<errors, alerts>>
    /\ UNCHANGED <<doc, oracle, defuddleResult, defuddleHtml, pc, inv, heuristic,
                   content, metadata, markdown, sourceHtml, sent, ignored, turndown,
                   message>>
    /\ UNCHANGED <<varsFence, varsCall, varsDownloader>>

----------------------------------------------------------------------------
(* Specification SpecFence: computeFence and the block-code rule applied   *)
(* to every code string of bounded length.                                 *)

MaxCodeLen == 4
CodeChars == {BT, "a", NL}

InitFence ==
    /\ code \in StringsUpTo(CodeChars, MaxCodeLen)
    /\ fence = <<>>
    /\ emitted = <<>>
    /\ NoPage
    /\ NoDownloader
    /\ NoCall

\* self.computeFence(code)
ComputeFenceCall ==
    /\ fence = <<>>
    /\ fence' = computeFence(code)
    /\ UNCHANGED <<code, emitted>>
    /\ UNCHANGED <<varsPage, varsCall, varsDownloader>>

\* The block-code rule's replacement for a PRE holding code, no language.
PreformattedCodeCall ==
    /\ emitted = <<>>
    /\ Trim(code) # <<>>
    /\ emitted' = preformattedCodeReplacement(code, <<>>)
    /\ UNCHANGED <<code, fence>>
    /\ UNCHANGED <<varsPage, varsCall, varsDownloader>>

NextFence == ComputeFenceCall \/ PreformattedCodeCall

SpecFence == InitFence /\ [][NextFence]_vars

\* s holds n consecutive backticks somewhere.
HasBacktickRun(s, n) ==
    \E i \in 1..(Len(s) - n + 1) : \A j \in i..(i + n - 1) : s[j] = BT

OnlyBackticks(s) == \A i \in 1..Len(s) : s[i] = BT

\* f is the fence the claim describes for s: backticks only, at least three,
\* longer than every run of backticks in s, and no longer than that needs.
IsFenceFor(f, s) ==
    /\ OnlyBackticks(f)
    /\ Len(f) >= 3
    /\ ~HasBacktickRun(s, Len(f))
    /\ Len(f) > 3 => HasBacktickRun(s, Len(f) - 1)

\* C1: the fence computed for a code string is made of backticks only and is
\* exactly max(3, k+1) long, k the longest run of backticks in the string; so
\* no run of backticks in the emitted body is as long as the fence. It holds
\* for computeFence itself and for the fence the block-code rule emits
\* around the trimmed code.
C1_FenceLength ==
    /\ fence # <<>> => IsFenceFor(fence, code)
    /\ emitted # <<>> =>
          LET n    == RunLengthFrom(emitted, 3)
              body == SubSeq(emitted, 3 + n + 1, Len(emitted) - n - 3)
          IN  /\ body = Trim(code)
              /\ IsFenceFor(Repeat(BT, n), body)
              /\ SubSeq(emitted, Len(emitted) - n - 1, Len(emitted) - 2) = Repeat(BT, n)

\* C1 witness: a code string whose longest run of backticks is three has been
\* fenced, by computeFence and by the block-code rule.
C1_Witness ==
    /\ HasBacktickRun(code, 3)
    /\ Len(fence) = 4
    /\ emitted # <<>>

----------------------------------------------------------------------------
(* Specification SpecMeta: one invocation on a fresh converter, up to the  *)
(* metadata record, over documents that vary the meta tags and the         *)
(* heuristic's values of one field at a time, or the tag sources.          *)

MaxKeywords == 12
MaxLinks == 8

TagAtoms == <<"t01", "t02", "t03", "t04", "t05", "t06", "t07", "t08", "t09",
              "t10", "t11", "t12", "t13", "t14", "t15", "t16", "t17", "t18",
              "t19", "t20", "t21", "t22", "t23", "t24">>

\* The k-th tag value, with blanks around it when padded.
TagText(k, padded) ==
    IF padded THEN <<" ", TagAtoms[k], " ">> ELSE <<TagAtoms[k]>>

\* Which tag value stands at place i of a source: all distinct, each value
\* twice in a row, or one value throughout.
PatternIndex(pattern, i) ==
    CASE pattern = "distinct" -> i
      [] pattern = "pairs" -> (i + 1) \div 2
      [] OTHER -> 1

Patterns == {"distinct", "pairs", "same"}

RECURSIVE JoinComma(_)
JoinComma(items) ==
    IF items = <<>> THEN <<>>
    ELSE IF Len(items) = 1 THEN Head(items)
         ELSE Head(items) \o <<",">> \o JoinComma(Tail(items))

\* The content of a keywords meta tag listing n values.
KeywordsContent(n, pattern, padded) ==
    JoinComma([i \in 1..n |-> TagText(PatternIndex(pattern, i), padded /\ i % 2 = 0)])

\* The texts of n tag links whose values start after `offset`.
TagLinkTexts(n, pattern, offset) ==
    [j \in 1..n |-> TagText(offset + PatternIndex(pattern, j), j % 2 = 1)]

MetaValue(n) == <<" ", "meta", n, " ">>
MetaValues(n) == {Null, <<>>, <<" ">>, MetaValue(n)}
DefValue(k) == <<"defuddle", k>>
DefValues(k) == {Undefined, <<>>, DefValue(k)}

FocusNames(f) ==
    CASE f = "title" -> Range(TitleNames)
      [] f = "source" -> Range(SourceNames)
      [] f = "description" -> Range(DescriptionNames)
      [] f = "author" -> Range(AuthorNames)
      [] f = "published" -> Range(PublishedNames)
      [] OTHER -> {}

FocusDefKeys(f) ==
    CASE f = "title" -> {"title"}
      [] f = "source" -> {"siteName", "site", "publication", "domain"}
      [] f = "description" -> {"description"}
      [] f = "author" -> {"author"}
      [] f = "published" -> {"published"}
      [] OTHER -> {}

Focuses == {"title", "source", "description", "author", "published"}

\* The meta tags that vary the names of field f only.
FieldMetas(f) ==
    LET names == FocusNames(f)
        values == UNION {MetaValues(n) : n \in names}
    IN  {[n \in MetaNames |-> IF n \in names THEN g[n] ELSE Null] :
            g \in {gg \in [names -> values] : \A n \in names : gg[n] \in MetaValues(n)}}

\* The documents that vary field f only.
FieldDocuments(f) ==
    {[EmptyDocument EXCEPT !.meta = m, !.title = t, !.hostname = h] :
        m \in FieldMetas(f),
        t \in IF f = "title" THEN {<<>>, <<"Document title">>} ELSE {<<>>},
        h \in IF f = "source" THEN {<<"www.", "example.org">>} ELSE {<<"example.org">>}}

\* The heuristic results that vary the keys of field f only.
FieldResults(f) ==
    LET keys == FocusDefKeys(f)
        values == UNION {DefValues(k) : k \in keys}
    IN  {[DefNull EXCEPT !.nul = FALSE,
                         !.text = [k \in DefTextKeys |-> IF k \in keys THEN g[k] ELSE Undefined]] :
            g \in {gg \in [keys -> values] : \A k \in keys : gg[k] \in DefValues(k)}}

TagDocuments ==
    {[EmptyDocument EXCEPT
         !.meta = [EmptyDocument.meta EXCEPT ![KeywordsName] = kw],
         !.tagLinks = links] :
        kw \in {Null} \cup {KeywordsContent(n, p, padded) :
                   n \in 0..MaxKeywords, p \in Patterns, padded \in BOOLEAN},
        links \in {TagLinkTexts(n, p, off) :
                   n \in 0..MaxLinks, p \in Patterns, off \in {0, MaxKeywords}}}

\* n words, sep between them.
WordsText(n, sep) ==
    LET block == <<"w">> \o sep
    IN  [i \in 1..(n * Len(block) - (IF n = 0 THEN 0 ELSE Len(sep))) |->
            block[((i - 1) % Len(block)) + 1]]

\* The numbers of words the body texts hold: none, few, and the numbers
\* around one minute of reading.
WordNumbers == {0, 1, 2, WordsPerMinute, WordsPerMinute + 1}

WordBodyTexts ==
    {pad \o WordsText(n, sep) \o pad :
        n \in WordNumbers, sep \in {<<" ">>, <<NL, "\t">>}, pad \in {<<>>, <<" ">>, <<NL, " ">>}}

\* The documents that vary the text of the body only: no node, or one
\* paragraph of text.
WordDocuments ==
    {EmptyDocument}
       \cup {[EmptyDocument EXCEPT !.body = <<El("p", <<>>, <<Txt(t)>>)>>] : t \in WordBodyTexts}

\* The counts the heuristic supplies: 0, and the counts around one and two
\* minutes of reading.
SuppliedCounts ==
    {0, 1, WordsPerMinute - 1, WordsPerMinute, WordsPerMinute + 1,
     2 * WordsPerMinute, 2 * WordsPerMinute + 1}

\* The heuristic results that vary the word count only: a result without a
\* count, or with one.
WordResults ==
    {[DefNull EXCEPT !.nul = FALSE]}
       \cup {[DefNull EXCEPT !.nul = FALSE, !.hasWordCount = TRUE, !.wordCount = c] :
                c \in SuppliedCounts}

InitMeta ==
    /\ NoFence
    /\ NoCall
    /\ NoDownloader
    /\ FreshConverter
    /\ \/ \E f \in Focuses :
             /\ doc \in FieldDocuments(f)
             /\ \E def \in FieldResults(f) \cup {DefNull} : oracle = {Returned(def)}
       \/ /\ doc \in TagDocuments
          /\ oracle = {Threw}
       \/ /\ doc \in WordDocuments
          /\ \E def \in WordResults \cup {DefNull} : oracle \in {{Returned(def)}, {Threw}}

NextMeta == ReceiveMessage \/ ExtractMainContentStep \/ ExtractMetadataStep

SpecMeta == InitMeta /\ [][NextMeta]_vars

\* The metadata record of the running invocation has been computed.
MetadataDone == pc = "convert"

\* What the heuristic supplied for key k in the running invocation.
Supplied(k) ==
    IF heuristic.kind = "result" THEN DefGet(heuristic.def, k) ELSE Undefined

\* v is the meta-tag value of the name list: the trimmed content of the
\* first name of the list that has an element with a non-empty content.
IsFirstNonEmptyMeta(v, names) ==
    \E i \in 1..Len(names) :
       /\ doc.meta[names[i]] \notin {Null, <<>>}
       /\ \A j \in 1..(i - 1) : doc.meta[names[j]] \in {Null, <<>>}
       /\ v = Trim(doc.meta[names[i]])

\* Some meta tag of the list holds v.
IsSomeMeta(v, names) ==
    \E i \in 1..Len(names) :
       doc.meta[names[i]] # Null /\ v = Trim(doc.meta[names[i]]) /\ Truthy(v)

HeuristicFirst(value, k, names) ==
    /\ Truthy(Supplied(k)) => value = Supplied(k)
    /\ IsSomeMeta(value, names) =>
          ~Truthy(Supplied(k)) /\ IsFirstNonEmptyMeta(value, names)

\* C8: for title, description, author and publishedDate the record carries
\* the heuristic's value whenever the heuristic supplies a non-empty one,
\* whatever the meta tags hold; a meta-tag value is carried only when the
\* heuristic's value is missing or empty, and it is then the first non-empty
\* one of the field's name list.
C8_HeuristicBeforeMeta ==
    MetadataDone =>
        /\ HeuristicFirst(metadata.title, "title", TitleNames)
        /\ HeuristicFirst(metadata.description, "description", DescriptionNames)
        /\ HeuristicFirst(metadata.author, "author", AuthorNames)
        /\ HeuristicFirst(metadata.publishedDate, "published", PublishedNames)

\* C8 witness: the heuristic supplies an author, the article:author meta tag
\* holds another value, and the record carries the heuristic's.
C8_Witness ==
    /\ MetadataDone
    /\ Truthy(Supplied("author"))
    /\ Truthy(doc.meta["article:author"])
    /\ Trim(doc.meta["article:author"]) # Supplied("author")
    /\ metadata.author = Supplied("author")

\* C9 (as claimed): the source field takes the heuristic's site guess before
\* any site-name meta tag, so a non-empty heuristic value is what the record
\* carries.
C9_SourceHeuristicFirst ==
    MetadataDone =>
        /\ Truthy(Supplied("siteName")) => metadata.source = Supplied("siteName")
        /\ IsSomeMeta(metadata.source, SourceNames) =>
              /\ ~Truthy(Supplied("siteName"))
              /\ ~Truthy(Supplied("site"))
              /\ ~Truthy(Supplied("publication"))

\* The words of a text: its maximal runs of characters that are no
\* whitespace.
NumberOfWords(s) ==
    Cardinality({i \in 1..Len(s) : ~IsSpace(s[i]) /\ (i = 1 \/ IsSpace(s[i - 1]))})

\* The heuristic supplied a word count in the running invocation.
SuppliedCount == heuristic.kind = "result" /\ ~heuristic.def.nul /\ heuristic.def.hasWordCount

\* C11: wordCount is the heuristic's count whenever the heuristic supplies
\* one (0 included) and otherwise the number of whitespace-separated words of
\* the document text, 0 for a document with no words; readingTime is
\* ceil(wordCount / 200).
C11_WordCount ==
    MetadataDone =>
        /\ metadata.wordCount = IF SuppliedCount THEN heuristic.def.wordCount
                                ELSE NumberOfWords(BodyText(doc))
        /\ metadata.readingTime * WordsPerMinute >= metadata.wordCount
        /\ (metadata.readingTime - 1) * WordsPerMinute < metadata.wordCount

\* C11, the part that holds: the heuristic's count is carried when supplied,
\* a text with words is counted by its words, and readingTime is the ceiling.
C11_CountWhenWords ==
    (MetadataDone /\ (SuppliedCount \/ NumberOfWords(BodyText(doc)) > 0)) =>
        /\ metadata.wordCount = IF SuppliedCount THEN heuristic.def.wordCount
                                ELSE NumberOfWords(BodyText(doc))
        /\ metadata.readingTime * WordsPerMinute >= metadata.wordCount
        /\ (metadata.readingTime - 1) * WordsPerMinute < metadata.wordCount

\* The tag values in the order extractTags meets them: the comma-separated
\* pieces of the keywords content, then the tag links, each trimmed.
TagStream ==
    LET kw == doc.meta[KeywordsName]
        pieces == IF kw # Null /\ kw # <<>> THEN SplitComma(kw, <<>>) ELSE <<>>
    IN  [i \in 1..Len(pieces) |-> Trim(pieces[i])]
            \o [j \in 1..Len(doc.tagLinks) |-> Trim(doc.tagLinks[j])]

FirstPlace(x, stream) ==
    CHOOSE i \in 1..Len(stream) :
        stream[i] = x /\ \A j \in 1..(i - 1) : stream[j] # x

\* C10: the tags list has no duplicate and at most 10 entries, in the order
\* of first encounter (keywords before tag links); an encountered value is
\* left out only when 10 values met before it fill the list, so 15 or more
\* distinct values give exactly the first 10.
C10_TagsCapped ==
    MetadataDone =>
        LET tags == metadata.tags
            stream == TagStream
        IN  /\ \A i, j \in 1..Len(tags) : i # j => tags[i] # tags[j]
            /\ Len(tags) <= 10
            /\ \A i \in 1..Len(tags) : tags[i] \in Range(stream)
            /\ \A i, j \in 1..Len(tags) :
                  i < j => FirstPlace(tags[i], stream) < FirstPlace(tags[j], stream)
            /\ \A x \in Range(stream) \ Range(tags) :
                  /\ Len(tags) = 10
                  /\ \A i \in 1..Len(tags) :
                        FirstPlace(tags[i], stream) < FirstPlace(x, stream)
            /\ Cardinality(Range(stream)) >= 15 => Len(tags) = 10

\* C10 witness: keywords and tag links together hold 15 or more distinct
\* values, some of them more than once, and the list has 10 entries.
C10_Witness ==
    /\ MetadataDone
    /\ Cardinality(Range(TagStream)) >= 15
    /\ Len(TagStream) > Cardinality(Range(TagStream))
    /\ doc.meta[KeywordsName] # Null
    /\ doc.tagLinks # <<>>
    /\ Len(metadata.tags) = 10

----------------------------------------------------------------------------
(* The specification of whole invocations: pages with diagram graphics,    *)
(* the heuristic's outcomes on them, and the invocations one converter     *)
(* instance runs on them, one after the other.                             *)

Para == El("p", <<>>, <<Txt(<<"T">>)>>)
DiagramById == El("svg", <<<<"id", <<"mermaid", "-", "1">>>>>>, <<>>)
DiagramByClass == El("svg", <<<<"class", <<"flowchart">>>>>>, <<>>)
DiagramWithSource ==
    El("svg", <<<<"id", <<"mermaid", "-", "2">>>>,
                <<"data-source", <<"graph", " ", "TD">>>>>>, <<>>)
Icon == El("svg", <<<<"class", <<"icon">>>>>>, <<>>)
Mention == El("p", <<>>, <<Txt(<<"mermaid", "-", "js">>)>>)
\* A script whose JSON text holds a fenced diagram source.
RawFence ==
    El("script", <<<<"type", <<"application/json">>>>>>,
       <<Txt(<<BT, BT, BT, "mermaid", EscNL, "graph", " ", "LR", BT, BT, BT>>)>>)

PageBodies ==
    {<<Para>>,
     <<Para, DiagramById>>,
     <<DiagramByClass, Icon>>,
     <<Mention, DiagramById>>,
     <<DiagramWithSource, Para>>,
     <<DiagramById, RawFence>>}

\* A document without body (a frameset or a bare svg document).
BodylessDocument == [EmptyDocument EXCEPT !.hasBody = FALSE]

PageDocuments ==
    {[EmptyDocument EXCEPT !.body = b] : b \in PageBodies} \cup {BodylessDocument}

\* The subsequences of s.
RECURSIVE SubSeqs(_)
SubSeqs(s) ==
    IF s = <<>> THEN {<<>>}
    ELSE LET rest == SubSeqs(Tail(s))
         IN  rest \cup {<<Head(s)>> \o r : r \in rest}

ContentResult(html) == [DefNull EXCEPT !.nul = FALSE, !.content = html]

\* What the heuristic may do on document d: throw, return nothing, return a
\* result without content, or return some of the body's blocks as content
\* (with a title of its own when it returns them all).
\* On a document without body it may still return content of its own.
OutcomesOn(d) ==
    {Threw, Returned(DefNull), Returned(ContentResult(NoHtml))}
       \cup {Returned(IF c = d.body /\ c # <<>>
                       THEN [ContentResult(Html(c)) EXCEPT !.text["title"] = <<"Heuristic title">>]
                       ELSE ContentResult(Html(c))) :
                c \in IF d.hasBody THEN SubSeqs(d.body) ELSE {<<>>, <<Para>>}}

InitPage ==
    /\ NoFence
    /\ NoCall
    /\ NoDownloader
    /\ FreshConverter
    /\ doc \in PageDocuments
    /\ oracle = OutcomesOn(doc)

\* Between two invocations the page may become another (a navigation inside
\* the tab, a script rewriting the body).
Navigate ==
    /\ pc = "idle"
    /\ \E d \in PageDocuments \ {doc} :
          /\ doc' = d
          /\ oracle' = OutcomesOn(d)
    /\ UNCHANGED <<defuddleResult, defuddleHtml, pc, inv, heuristic, content,
                   metadata, markdown, sourceHtml, sent, alerts, errors, awaiting,
                   ignored, turndown,
                   message>>
    /\ UNCHANGED <<varsFence, varsCall, varsDownloader>>

NextPage ==
    \/ ReceiveMessage
    \/ ExtractMainContentStep
    \/ ExtractMetadataStep
    \/ ConvertStep
    \/ SendStep
    \/ SendSettles
    \/ Navigate

SpecPage == InitPage /\ [][NextPage]_vars

ConversionDone == pc = "send"

\* The recognized diagram graphics of the live document, by their place.
RecognizedGraphics(d) ==
    {p \in Range(PathsBelow(El("body", <<>>, d.body), <<>>)) :
        IsPageMermaidSvg(NodeAt(El("body", <<>>, d.body), p))}

\* No diagram source is recoverable from the live document: no graphic has
\* one in an attribute or a text container, and the page's HTML holds no
\* fenced source.
NoSourceRecoverable(d) ==
    /\ extractMermaidBlocksFromRawHtml(d.body) = <<>>
    /\ \A p \in RecognizedGraphics(d) : extractMermaidSource(El("body", <<>>, d.body), p) = <<>>

\* The image references of diagrams and the omission notices in md.
DiagramStandIns(md) ==
    {i \in 1..Len(md) :
        \/ md[i] = OmissionText
        \/ i < Len(md) /\ md[i] = "![" /\ md[i + 1] = "Mermaid diagram"}

\* C2: in every completed conversion of a page with recognized diagram
\* graphics and no recoverable source, the Markdown holds an image reference
\* or the omission notice for each graphic, whatever the heuristic returned.
C2_DiagramNeverLost ==
    (ConversionDone /\ doc.hasBody /\ RecognizedGraphics(doc) # {} /\ NoSourceRecoverable(doc))
       => Cardinality(DiagramStandIns(markdown)) >= Cardinality(RecognizedGraphics(doc))

\* The heuristic threw or returned no content in the running invocation.
HeuristicFailed ==
    heuristic.kind = "throw" \/ ~HtmlTruthy(heuristic.def.content)

\* C3: in every invocation in which the heuristic throws or returns no
\* content, the HTML that is normalized and converted is the HTML of the
\* current document body, whatever invocations ran before.
C3_FallbackConvertsBody ==
    (ConversionDone /\ HeuristicFailed) => sourceHtml = Html(doc.body)

\* What a converter fresh from its constructor holds after extractMainContent
\* met the outcome h.
FreshResult(h) == IF h.kind = "result" THEN h.def ELSE DefNull
FreshHtml(h) == IF h.kind = "result" /\ ~h.def.nul THEN h.def.content ELSE NoHtml

\* C4: the markdown and the metadata of an invocation depend only on the
\* document and on the heuristic's outcome in that invocation: they are what
\* a fresh converter produces for them, whatever invocations ran before.
C4_NoCarryOver ==
    ConversionDone =>
       /\ metadata = extractMetadata(doc, FreshResult(heuristic))
       /\ \E unserial \in SUBSET SvgPaths(SourceHtml(doc, FreshHtml(heuristic), content)) :
             markdown = convertToMarkdown(turndown, doc, FreshHtml(heuristic), content, unserial)

\* The stages of processPage before its await.
StagesBeforeSend == {"extract", "metadata", "convert"}

\* C5: an invocation in which extraction, metadata extraction or conversion
\* threw has sent no DOWNLOAD_MARKDOWN message, has shown an alert and has
\* logged the error; every invocation that is over has either sent its
\* message or alerted and logged; and after such a failure the listener is
\* free for the next trigger_conversion message.
C5_FailureContained ==
    /\ \A e \in errors \cup alerts :
          e.stage \in StagesBeforeSend =>
             /\ e.inv \notin sent
             /\ e \in errors /\ e \in alerts
             /\ e.inv = inv => pc = "idle"
    /\ pc = "idle" =>
          \A i \in 1..inv :
             i \in sent \/ \E e \in errors \cap alerts : e.inv = i /\ e.stage \in StagesBeforeSend
    /\ (pc = "idle" /\ inv < MaxInvocations) => ENABLED ReceiveMessage

\* The first invocation failed in conversion, was alerted and logged, and a
\* later invocation of the same converter sent its message.
C5_Witness ==
    /\ [inv |-> 1, stage |-> "convert"] \in errors \cap alerts
    /\ 1 \notin sent
    /\ 2 \in sent

----------------------------------------------------------------------------
(* The specification of the rules: pages whose body is one small content   *)
(* tree of headings, links, code, captions and noise elements, converted   *)
(* by one invocation.                                                      *)

MaxKids == 2

\* The text the noise elements of the trees hold, found nowhere else.
NoiseText == "x"

\* A noise element; an embed is void and holds no text.
Noise(tag) ==
    IF tag \in VoidTags THEN El(tag, <<>>, <<>>) ELSE El(tag, <<>>, <<Txt(<<NoiseText>>)>>)

\* A text with blanks at its ends and a run of blanks inside.
PaddedText == <<" ", "T", " ", " ", "U", " ">>

Leaves(noise) == {Txt(<<"T">>), Txt(<<" ">>), Txt(PaddedText), Noise(noise)}

\* The children lists of at most MaxKids leaves; a parser never leaves two
\* text nodes side by side.
KidLists(noise) ==
    {s \in StringsUpTo(Leaves(noise), MaxKids) :
        \A i \in 1..(Len(s) - 1) : ~(IsText(s[i]) /\ IsText(s[i + 1]))}

LinkAttrs == <<<<"href", <<"#x">>>>>>

\* The elements that hold leaves. A nav or a footer ends a paragraph, so no
\* paragraph holds one.
Holders(noise) ==
    {El(t, IF t = "a" THEN LinkAttrs ELSE <<>>, ks) :
        t \in Range(HeadingTags) \cup {"a", "pre", "code", "figcaption"},
        ks \in KidLists(noise)}
       \cup {El("p", <<>>, ks) : ks \in IF noise \in {"nav", "footer"}
                                          THEN {k \in KidLists(noise) :
                                                   \A i \in 1..Len(k) : IsText(k[i])}
                                          ELSE KidLists(noise)}

Blank == Txt(<<" ">>)

\* A link with blank text, or none, at its sides.
Padded(link) == {<<link>>, <<Blank, link>>, <<link, Blank>>, <<Blank, link, Blank>>}

\* The content trees: a holder, a heading around one link, a link around one
\* heading, a figure around a caption, a pre around a code element.
Trees(noise) ==
    LET holders == Holders(noise)
        links == {h \in holders : h.tag = "a"}
        headings == {h \in holders : IsHeading(h)}
    IN  holders
           \cup {El(t, <<>>, ks) : t \in Range(HeadingTags),
                                   ks \in UNION {Padded(l) : l \in links}}
           \cup {El("a", LinkAttrs, <<h>>) : h \in headings}
           \cup {El("figure", <<>>, <<c>>) : c \in {h \in holders : h.tag = "figcaption"}}
           \cup {El("pre", <<>>, <<c>>) : c \in {h \in holders : h.tag = "code"}}

\* The heuristic throws, or returns the whole body as content.
InitRules ==
    /\ NoFence
    /\ NoCall
    /\ NoDownloader
    /\ FreshConverter
    /\ \E noise \in RemovedTags :
          \E tree \in Trees(noise) : doc = [EmptyDocument EXCEPT !.body = <<tree>>]
    /\ oracle = {Threw, Returned(ContentResult(Html(doc.body)))}

NextRules ==
    \/ ReceiveMessage
    \/ ExtractMainContentStep
    \/ ExtractMetadataStep
    \/ ConvertStep

SpecRules == InitRules /\ [][NextRules]_vars

\* The one tree of the page.
Tree == doc.body[1]

\* A heading whose only non-blank child is one link.
HeadingAroundLink(n) ==
    /\ IsHeading(n)
    /\ Len(NonWhitespaceKids(n)) = 1
    /\ NonWhitespaceKids(n)[1].tag = "a"

\* A link that wraps exactly one heading.
LinkAroundHeading(n) ==
    /\ n.tag = "a"
    /\ Len(n.kids) = 1
    /\ IsHeading(n.kids[1])

\* The tree as the transducer reads it, its whitespace collapsed.
TreeRead == RootNode(doc.body).kids[1]

\* The heading the claim is about, as the page holds it and as the transducer
\* reads it, and the trimmed plain text of each.
PageHeading == IF LinkAroundHeading(Tree) THEN Tree.kids[1] ELSE Tree
TheHeading == IF LinkAroundHeading(Tree) THEN TreeRead.kids[1] ELSE TreeRead
PageHeadingText == Trim(textContent(PageHeading))
HeadingText == Trim(textContent(TheHeading))

LinkSyntax == {"[", "](", "]", "\\"}

C7_NoiseElided ==
    ConversionDone => NoiseText \notin Range(markdown)

----------------------------------------------------------------------------
(* Specification SpecCleanup: cleanupMarkdown applied to every string made *)
(* of a bounded number of pieces.                                          *)

MaxPieces == 5

\* The pieces of a Markdown string: a character of text, a blank, a tab, a
\* carriage return, one newline and three.
MarkdownPieces == {<<"a">>, <<" ">>, <<"\t">>, <<"\r">>, <<NL>>, <<NL, NL, NL>>}

MarkdownStrings == {ConcatAll(ps) : ps \in StringsUpTo(MarkdownPieces, MaxPieces)}

InitCleanup ==
    /\ NoFence
    /\ NoPage
    /\ NoDownloader
    /\ fn = "none"
    /\ arg \in MarkdownStrings
    /\ ret = <<>>
    /\ threw = {}
    /\ scan = NoScan
    /\ loop = NoLoop

\* this.cleanupMarkdown(arg)
CleanupMarkdownCall ==
    /\ fn = "none"
    /\ fn' = "cleanupMarkdown"
    /\ ret' = cleanupMarkdown(arg)
    /\ UNCHANGED <<arg, threw, scan, loop>>
    /\ UNCHANGED <<varsFence, varsPage, varsDownloader>>

\* The post-processor is handed the next string.
CleanupMarkdownReturn ==
    /\ fn = "cleanupMarkdown"
    /\ fn' = "none"
    /\ ret' = <<>>
    /\ \E s \in {ret, ret \o <<NL, NL, NL, NL>>, <<" ">> \o ret} : arg' = s
    /\ arg' # arg
    /\ UNCHANGED <<threw, scan, loop>>
    /\ UNCHANGED <<varsFence, varsPage, varsDownloader>>

NextCleanup == CleanupMarkdownCall \/ CleanupMarkdownReturn

SpecCleanup == InitCleanup /\ [][NextCleanup]_vars

\* The characters of s at the places that pass Keep, in their order.
KeepPlaces(s, Keep(_)) ==
    LET places == {i \in 1..Len(s) : Keep(i)}
        Nth(k) == CHOOSE i \in places : Cardinality({j \in places : j < i}) = k - 1
    IN  [k \in 1..Cardinality(places) |-> s[Nth(k)]]

\* The maximal run of newlines that place i of s lies in, as its first place
\* and its length.
RunStart(s, i) == CHOOSE a \in 1..i :
                     /\ \A j \in a..i : s[j] = NL
                     /\ a = 1 \/ s[a - 1] # NL
RunEnd(s, i) == CHOOSE b \in i..Len(s) :
                   /\ \A j \in i..b : s[j] = NL
                   /\ b = Len(s) \/ s[b + 1] # NL

\* Each maximal run of 4 or more newlines replaced by 2: of such a run the
\* first two newlines stay.
RunsOfFourToTwo(s) ==
    KeepPlaces(s, LAMBDA i :
        \/ s[i] # NL
        \/ RunEnd(s, i) - RunStart(s, i) + 1 < 4
        \/ i - RunStart(s, i) < 2)

\* The blanks and tabs at the end of every line removed: a blank or tab goes
\* when only blanks and tabs lie between it and the end of its line.
LineEndsStripped(s) ==
    KeepPlaces(s, LAMBDA i :
        \/ ~IsBlankOrTab(s[i])
        \/ \E j \in (i + 1)..Len(s) :
              /\ s[j] \notin {" ", "\t", NL, "\r"}
              /\ \A k \in (i + 1)..(j - 1) : IsBlankOrTab(s[k]))

\* The whitespace at the two ends of the string removed.
EndsTrimmed(s) ==
    KeepPlaces(s, LAMBDA i :
        /\ \E j \in 1..i : ~IsSpace(s[j])
        /\ \E j \in i..Len(s) : ~IsSpace(s[j]))

SixNewlines == <<NL, NL, NL, NL, NL, NL>>

\* C12: cleanupMarkdown replaces each maximal run of 4 or more newlines of
\* its input by exactly 2, then removes the blanks and tabs at the end of
\* every line, then the whitespace at the two ends of the string; 6 newlines
\* between two paragraphs become exactly 2.
C12_CleanupSteps ==
    fn = "cleanupMarkdown" =>
        /\ ret = EndsTrimmed(LineEndsStripped(RunsOfFourToTwo(arg)))
        /\ arg = <<"a">> \o SixNewlines \o <<"a">> => ret = <<"a", NL, NL, "a">>

\* C12 witness: a string with a run of 4 or more newlines between two
\* characters of text and a blank at the end of a line has been cleaned.
C12_Witness ==
    /\ fn = "cleanupMarkdown"
    /\ \E i \in 1..Len(arg) : arg[i] = NL /\ RunEnd(arg, i) - RunStart(arg, i) + 1 >= 4
    /\ \E i \in 1..(Len(arg) - 1) : arg[i] = " " /\ arg[i + 1] = NL
    /\ ret = <<"a", NL, NL, "a">>

----------------------------------------------------------------------------
(* Specification SpecNormalize: normalizeContentHtml applied to the HTML   *)
(* of block-code containers, and applied again to what it returned.        *)

\* The attributes that name a language, and those that name none.
LanguageAttrs ==
    {<<>>,
     <<<<"data-lang", <<"js">>>>>>,
     <<<<"data-language", <<"py">>>>>>,
     <<<<"class", <<"hl", " ", "language", "-", "rb">>>>>>,
     <<<<"class", <<"lang", "-", "go">>>>>>,
     <<<<"data-lang", <<>>>>, <<"class", <<"language", "-", "rb">>>>>>,
     <<<<"class", <<"hl">>>>>>}

\* Code texts: empty, blank, with carriage returns, with non-breaking
\* spaces, with newlines at the end, with blanks at the start of the first
\* line, with backticks.
CodeTexts ==
    {<<>>, <<" ", NL>>, <<"a">>, <<" ", " ", "a", NL, " ", "b">>,
     <<"a", "\r", NL, "b", "\r">>, <<"a", Nbsp, "b", NL, NL>>,
     <<"a", BT, BT, BT, "b">>}

\* The children of a block-code container around text t: the text alone, a
\* code element, a code element after a label, a pre around a code element.
PreKids(t) ==
    {<<Txt(t)>>}
       \cup {<<El("code", a, <<Txt(t)>>)>> : a \in LanguageAttrs}
       \cup {<<El("span", <<>>, <<Txt(<<"x">>)>>), El("code", a, <<Txt(t)>>)>> : a \in LanguageAttrs}
       \cup {<<El("pre", a, <<El("code", <<>>, <<Txt(t)>>)>>)>> : a \in LanguageAttrs}

PreContainers == {El("pre", a, ks) : a \in LanguageAttrs, ks \in UNION {PreKids(t) : t \in CodeTexts}}

\* The attributes a diagram graphic carries besides its id: none, a blank
\* known attribute, a known attribute with a source, a blank one before one
\* with a source.
GraphicAttrs ==
    {<<>>,
     <<<<"data-source", <<" ">>>>>>,
     <<<<"data-source", <<" ", "A">>>>>>,
     <<<<"data-source", <<>>>>, <<"data-code", <<"A2">>>>>>}

\* The attributes of the element around the graphic.
WrapperAttrs ==
    {<<>>,
     <<<<"data-mermaid", <<"B", " ">>>>>>,
     <<<<"data-source", <<"B2">>>>, <<"data-code", <<" ">>>>>>}

TaggedCode(t) == El("pre", <<>>, <<El("code", <<<<"class", LanguageMermaid>>>>, <<Txt(t)>>)>>)
TaggedDiv(t) == El("div", <<<<"class", <<"mermaid">>>>>>, <<Txt(t)>>)

\* What follows the graphic in the element around it: nothing, a tagged text
\* container, an empty one before a tagged one of another kind, a code block
\* an earlier pass made, such a block before a tagged container.
GraphicSiblings ==
    {<<>>,
     <<TaggedCode(<<"C", NL>>)>>,
     <<TaggedCode(<<" ">>), TaggedDiv(<<"C2">>)>>,
     <<MermaidPre(<<"G">>)>>,
     <<MermaidPre(<<"G">>), TaggedCode(<<"C">>)>>}

RawFenceOf(src) ==
    El("script", <<<<"type", <<"application/json">>>>>>,
       <<Txt(<<BT, BT, BT, "mermaid", EscNL>> \o src \o <<BT, BT, BT>>)>>)

\* What the page holds after the element around the graphic.
PageRests ==
    {<<>>,
     <<RawFenceOf(<<"graph", " ", "D">>)>>,
     <<TaggedDiv(<<"E">>), RawFenceOf(<<"graph", " ", "D">>)>>}

GraphicWith(a) == El("svg", <<<<"id", <<"mermaid", "-", "1">>>>>> \o a, <<>>)

\* Pages of one graphic inside an element.
GraphicPages ==
    {<<El("div", w, <<GraphicWith(a)>> \o sib)>> \o rest :
        a \in GraphicAttrs, w \in WrapperAttrs, sib \in GraphicSiblings, rest \in PageRests}

\* A graphic inside a graphic, as a diagram with an embedded diagram holds it.
NestedGraphic(a) == El("svg", <<<<"class", <<"flowchart">>>>>> \o a, <<GraphicWith(<<>>)>>)

\* Pages of several graphics: two graphics and one raw candidate, a graphic
\* with a source before one without in the same element, a graphic inside a
\* graphic, a graphic next to an svg that is no diagram.
SeveralGraphicsPages ==
    {<<GraphicWith(<<>>), DiagramByClass, RawFenceOf(<<"graph", " ", "D">>)>>,
     <<El("div", <<>>, <<GraphicWith(<<<<"data-source", <<"A">>>>>>), DiagramByClass,
                         TaggedCode(<<"C">>)>>)>>,
     <<NestedGraphic(<<>>), RawFenceOf(<<"graph", " ", "D">>),
       RawFenceOf(<<"flowchart", " ", "F">>)>>,
     <<NestedGraphic(<<<<"data-graph", <<"A">>>>>>), RawFenceOf(<<"graph", " ", "D">>)>>,
     <<Icon, DiagramById, Para>>}

NormalizerInputs ==
    {<<pre>> : pre \in PreContainers} \cup GraphicPages \cup SeveralGraphicsPages

InitNormalize ==
    /\ NoFence
    /\ NoPage
    /\ NoDownloader
    /\ fn = "none"
    /\ arg \in NormalizerInputs
    /\ ret = <<>>
    /\ threw = {}
    /\ scan = NoScan
    /\ loop = NoLoop

\* normalizeContentHtml(html) with the serializer throwing on the svgs of the
\* paths unserial: what it returns and what it logs.
NormalizeRun(html, unserial) ==
    /\ ret' = normalizeContentHtml(html, unserial)
    /\ threw' = unserial
    /\ scan' = SvgScan(NormalizeSvgs(html, unserial), Cardinality(SvgPaths(Html(html))),
                       Len(extractMermaidBlocksFromRawHtml(html)))

\* this.normalizeContentHtml(sourceHtml) (content.js 262)
NormalizeCall ==
    /\ fn = "none"
    /\ fn' = "normalizeContentHtml"
    /\ \E unserial \in SUBSET SvgPaths(Html(arg)) : NormalizeRun(arg, unserial)
    /\ UNCHANGED <<arg, loop>>
    /\ UNCHANGED <<varsFence, varsPage, varsDownloader>>

\* The pass applied to the HTML it returned.
NormalizeAgain ==
    /\ fn = "normalizeContentHtml"
    /\ fn' = "normalizeContentHtml again"
    /\ arg' = ret
    /\ \E unserial \in SUBSET SvgPaths(Html(ret)) : NormalizeRun(ret, unserial)
    /\ UNCHANGED loop
    /\ UNCHANGED <<varsFence, varsPage, varsDownloader>>

\* The block-code rule's replacement (content.js 58-75) for the container
\* at the head of the normalized HTML, as Turndown hands it over.
BlockCodeRuleCall ==
    /\ fn = "normalizeContentHtml"
    /\ ret # <<>> /\ ret[1].tag = "pre"
    /\ fn' = "preformattedCode"
    /\ arg' = ret
    /\ ret' = preformattedCodeRule(RootNode(ret), <<1>>)
    /\ UNCHANGED <<threw, scan, loop>>
    /\ UNCHANGED <<varsFence, varsPage, varsDownloader>>

NextNormalize == NormalizeCall \/ NormalizeAgain \/ BlockCodeRuleCall

SpecNormalize == InitNormalize /\ [][NextNormalize]_vars

\* What the pass wrote into every block-code container of the HTML it
\* returned, in document order: the code text of the code element, and the
\* language it resolved, which it wrote into data-lang (none when empty).
PreFacts(nodes) ==
    LET body == El("body", <<>>, nodes)
        pres == PathsWithTag(body, "pre")
    IN  [i \in 1..Len(pres) |->
            LET c == NodeAt(body, pres[i]).kids[1]
            IN  [codeText |-> textContent(c), language |-> AttrOrEmpty(c, "data-lang")]]

CodeTextsOf(nodes) == [i \in 1..Len(PreFacts(nodes)) |-> PreFacts(nodes)[i].codeText]

\* C13 as stated: the pass applied to the containers it produced yields the
\* same code text and the same resolved language.
C13_Idempotent ==
    fn = "normalizeContentHtml again" => PreFacts(ret) = PreFacts(arg)

\* Some container of the HTML holds another.
HasNestedPre(nodes) ==
    LET body == El("body", <<>>, nodes)
    IN  \E q \in Range(PathsWithTag(body, "pre")) : HasPreAncestor(body, q)

\* The HTML the first application was handed held a container in a container.
FirstInputNested ==
    \E first \in NormalizerInputs :
       /\ HasNestedPre(first)
       /\ \E unserial \in SUBSET SvgPaths(Html(first)) : arg = normalizeContentHtml(first, unserial)

\* C13: the pass applied to the containers it produced yields the same code
\* text, and the same resolved language unless the container was produced
\* from a container that held another one.
C13_IdempotentText ==
    fn = "normalizeContentHtml again" =>
       /\ CodeTextsOf(ret) = CodeTextsOf(arg)
       /\ ~FirstInputNested => PreFacts(ret) = PreFacts(arg)

\* C13 witness: a container whose code text held carriage returns and whose
\* code element named a language has been canonicalized twice.
C13_Witness ==
    /\ fn = "normalizeContentHtml again"
    /\ PreFacts(ret) = <<[codeText |-> <<"a", NL, "b">>, language |-> <<"py">>]>>

\* The canonical container the rule was handed, its code text and its
\* resolved language: the code element's data-lang, else the container's own.
RuleContainer == arg[1]
RuleCodeText == textContent(RuleContainer.kids[1])
RuleLanguage ==
    IF Truthy(getAttribute(RuleContainer.kids[1], "data-lang"))
    THEN getAttribute(RuleContainer.kids[1], "data-lang")
    ELSE LanguageOfPre(RuleContainer)

\* C14: for a container whose canonicalized code text c is not empty after
\* trimming and whose resolved language is L, the block-code rule emits the
\* fence, L, a newline, c with no character added or removed (the leading
\* whitespace of the first line included), a newline and the same fence;
\* the fence is 3 backticks for code without backticks.
C14_FencedBlock ==
    (fn = "preformattedCode" /\ Trim(RuleCodeText) # <<>>) =>
        \E n \in 3..(Len(RuleCodeText) + 3) :
           /\ ret = Block(Repeat(BT, n) \o RuleLanguage \o <<NL>> \o RuleCodeText
                             \o <<NL>> \o Repeat(BT, n))
           /\ IsFenceFor(Repeat(BT, n), RuleCodeText)

\* C14, the part that holds: the same with the code text trimmed.
C14_FencedTrimmedBlock ==
    (fn = "preformattedCode" /\ Trim(RuleCodeText) # <<>>) =>
        \E n \in 3..(Len(RuleCodeText) + 3) :
           /\ ret = Block(Repeat(BT, n) \o RuleLanguage \o <<NL>> \o Trim(RuleCodeText)
                             \o <<NL>> \o Repeat(BT, n))
           /\ IsFenceFor(Repeat(BT, n), Trim(RuleCodeText))

----------------------------------------------------------------------------
(* The rule list after initialization (content.js 28-46, 48-189, 703-710), *)
(* read from this.turndown in the specification of the rules.              *)

\* The place of a rule in the list of the service: 1 is asked first.
Place(key) == CHOOSE i \in 1..Len(turndown.rules) : turndown.rules[i] = key

Precedes(a, b) == Place(a) < Place(b)

CustomRules ==
    {"preformattedCode", "mermaidSvg", "cleanHeadings", "headingLinks",
     "linkedHeadings", "figure", "inlineCode"}

GenericRules == Range(CommonMarkRules) \cup Range(GfmRules)

\* C15: after initialization the list holds the seven custom rules in the
\* order block-code, diagram-graphic, heading-clean, heading-single-link,
\* link-wrapped-heading, figure, inline-code, highest first.
C15_CustomOrder ==
    /\ CustomRules \subseteq Range(turndown.rules)
    /\ Precedes("preformattedCode", "mermaidSvg")
    /\ Precedes("mermaidSvg", "cleanHeadings")
    /\ Precedes("cleanHeadings", "headingLinks")
    /\ Precedes("headingLinks", "linkedHeadings")
    /\ Precedes("linkedHeadings", "figure")
    /\ Precedes("figure", "inlineCode")

\* The order the list has: the rule added last is asked first, and the
\* calls of prioritizeRule leave the custom rules in the order of that rule.
C15_OrderOfAddition ==
    SubSeq(turndown.rules, 1, 7) =
       <<"figure", "linkedHeadings", "headingLinks", "cleanHeadings",
         "inlineCode", "mermaidSvg", "preformattedCode">>

\* The nodes Turndown is handed for the page, each with its parent.
ReadNodes ==
    LET root == RootNode(doc.body)
    IN  {[node |-> NodeAt(root, q), parent |-> NodeAt(root, SubSeq(q, 1, Len(q) - 1))] :
            q \in Range(PathsBelow(root, <<>>))}

\* A heading, a link that holds a heading, or a pre.
CustomHandled(n) ==
    \/ IsHeading(n)
    \/ n.tag = "a" /\ FirstWithTag(n, Range(HeadingTags)) # <<>>
    \/ n.tag = "pre"

\* C16: heading-clean, heading-single-link and link-wrapped-heading precede
\* every generic heading and link rule, block-code and diagram-graphic
\* precede every generic preformatted-text rule, and no heading, link that
\* holds a heading, or pre of a page is handled by a generic rule.
C16_CustomBeforeGeneric ==
    /\ \A c \in {"cleanHeadings", "headingLinks", "linkedHeadings"} :
          \A g \in {"heading", "inlineLink", "referenceLink"} : Precedes(c, g)
    /\ \A c \in {"preformattedCode", "mermaidSvg"} :
          \A g \in {"indentedCodeBlock", "fencedCodeBlock", "highlightedCodeBlock"} :
             Precedes(c, g)
    /\ \A r \in ReadNodes :
          CustomHandled(r.node) => forNode(turndown, r.node, r.parent) \notin GenericRules

\* C16 witness: a page with a heading around a link with an address, which
\* the generic heading rule and the generic link rule match too, has been
\* converted, the heading by a custom rule.
C16_Witness ==
    /\ ConversionDone
    /\ \E r \in ReadNodes :
          /\ IsHeading(r.node)
          /\ FilterMatches("heading", r.node, r.parent)
          /\ \E k \in Range(r.node.kids) : FilterMatches("inlineLink", k, r.node)
          /\ forNode(turndown, r.node, r.parent) = "headingLinks"
    /\ markdown = <<"#", "#", " ", "T">>

----------------------------------------------------------------------------
(* The result message of an invocation (content.js 20-26, 191-205, 696-701), *)
(* in the specification of whole invocations.                              *)

\* The three steps of the running invocation completed without error.
StepsCompleted == \A stage \in StagesBeforeSend : [inv |-> inv, stage |-> stage] \notin errors

\* The invocation has run to its await or to its end.
AtRest == pc = "idle" /\ inv >= 1

\* C17: a trigger_conversion message whose extraction, metadata extraction
\* and conversion complete without error causes exactly one DOWNLOAD_MARKDOWN
\* message, which carries the markdown and the metadata of that invocation;
\* no message is sent before the steps are through or after one failed; and
\* a message with another action starts no conversion and sends nothing.
C17_OneResultMessage ==
    /\ [](pc # "idle" => message = <<>>)
    /\ []((AtRest /\ StepsCompleted) =>
             /\ inv \in sent
             /\ message = <<[type |-> "DOWNLOAD_MARKDOWN",
                             data |-> [markdown |-> markdown, metadata |-> metadata]]>>)
    /\ []((AtRest /\ ~StepsCompleted) => message = <<>> /\ inv \notin sent)
    /\ [][ignored' # ignored => UNCHANGED <<pc, inv, heuristic, content, metadata, markdown,
                                            sourceHtml, sent, message, awaiting, errors,
                                            alerts, defuddleResult, defuddleHtml>>]_vars

\* C17 witness: after a message with another action, the second invocation
\* of the converter has sent its one message, with a markdown and a title.
C17_Witness ==
    /\ AtRest
    /\ inv = 2
    /\ ignored
    /\ sent = {1, 2}
    /\ Len(message) = 1
    /\ message[1].data.markdown # <<>>
    /\ message[1].data.metadata.title = <<"Heuristic title">>

----------------------------------------------------------------------------
(* The working source of a conversion (content.js 237-248), in the         *)
(* specification of whole invocations.                                     *)

\* The content HTML the heuristic returned in the running invocation.
Extracted == FreshHtml(heuristic)

\* The working source as the claim states it.
ClaimedSource ==
    IF /\ HtmlTruthy(Extracted)
       /\ RecognizedGraphics(doc) # {}
       /\ ~IncludesSvgTag(Extracted.nodes)
       /\ ~IncludesMermaidDash(Extracted.nodes)
    THEN Html(doc.body)
    ELSE IF HtmlTruthy(Extracted) THEN Extracted
    ELSE Html(content.nodes)

\* C18: the working source is the HTML of the live document body if and
\* only if the heuristic returned non-empty content, the live document holds
\* a recognized diagram graphic and the extracted content HTML holds neither
\* '<svg' nor 'mermaid-'; in every other case it is the extracted content
\* HTML when present, else the HTML of the fallback content element.
C18_WorkingSource ==
    ConversionDone => sourceHtml = ClaimedSource

\* C18 where no earlier invocation left its content HTML behind: the field
\* the conversion reads is what the heuristic returned in this invocation.
C18_WorkingSourceFresh ==
    (ConversionDone /\ defuddleHtml = Extracted) => sourceHtml = ClaimedSource

----------------------------------------------------------------------------
(* The replacement of diagram graphics (content.js 292-347), in the        *)
(* specification of the normalizer.                                        *)

BodyOf(nodes) == El("body", <<>>, nodes)
AllPaths(nodes) == Range(PathsBelow(BodyOf(nodes), <<>>))

\* The recognized diagram graphics of the HTML `nodes`, by their paths, and
\* the ones of them that lie in no other.
Recognized(nodes) == {p \in AllPaths(nodes) : IsMermaidSvg(NodeAt(BodyOf(nodes), p))}
Outermost(nodes) ==
    {p \in Recognized(nodes) : \A q \in Recognized(nodes) : ~IsProperPrefix(q, p)}

\* The three kinds of node a graphic gives way to.
IsSourceBlock(n) ==
    /\ n.tag = "pre"
    /\ getAttribute(n, "data-pagetomd-generated") = <<"mermaid">>
    /\ Len(n.kids) = 1
    /\ n.kids[1].tag = "code"
    /\ getAttribute(n.kids[1], "data-lang") = <<"mermaid">>
    /\ HasClass(n.kids[1], LanguageMermaid)
    /\ Trim(textContent(n)) # <<>>
IsEmbeddedImage(n) ==
    /\ n.tag = "img"
    /\ getAttribute(n, "src") # Null
    /\ Len(getAttribute(n, "src")) > 1
    /\ Head(getAttribute(n, "src")) = DataUriPrefix
IsOmissionParagraph(n) == n.tag = "p" /\ textContent(n) = OmissionNotice

\* The number of children of the node of path p.
KidCount(nodes, p) == Len(NodeAt(BodyOf(nodes), p).kids)

\* The normalizer has returned (from either of its two applications).
Normalized == fn \in {"normalizeContentHtml", "normalizeContentHtml again"}

\* What took the place of the graphic of path p of the input.
Successor(p) == NodeAt(BodyOf(ret), p)

\* The graphic of path p carries a source in a known attribute of its own.
HasOwnSource(p) ==
    \E a \in Range(AttrCandidates) : NonBlankValue(getAttribute(NodeAt(BodyOf(arg), p), a))

----------------------------------------------------------------------------
(* The order of the sources of a graphic (content.js 311-320, 443-496), in *)
(* the specification of the normalizer.                                    *)

\* The source the pass chose for the graphic of path p of its input: the
\* text of the code block that took its place, nothing when an image or the
\* notice did.
ChosenSource(p) ==
    IF IsSourceBlock(Successor(p)) THEN textContent(Successor(p)) ELSE <<>>

\* The non-blank values of the known data attributes of the node of path q.
KnownValues(nodes, q) ==
    {Trim(getAttribute(NodeAt(BodyOf(nodes), q), a)) :
        a \in {b \in Range(AttrCandidates) :
                  NonBlankValue(getAttribute(NodeAt(BodyOf(nodes), q), b))}}

OwnValues(p) == KnownValues(arg, p)
AncestorValues(p) == UNION {KnownValues(arg, Prefix(p, k)) : k \in 0..(Len(p) - 1)}

\* The tagged text containers of the HTML `nodes` that hold a text.
TaggedContainers(nodes) ==
    {q \in AllPaths(nodes) :
        /\ \E sel \in Selectors : SelectorMatches(BodyOf(nodes), q, sel)
        /\ Trim(textContent(NodeAt(BodyOf(nodes), q))) # <<>>}

\* The ones of them that lie in a node marked as synthesized.
Synthesized(nodes) == {q \in TaggedContainers(nodes) : InsideGenerated(BodyOf(nodes), q)}

TextsAt(nodes, paths) == {Trim(textContent(NodeAt(BodyOf(nodes), q))) : q \in paths}

\* The texts of the tagged containers of the input that no synthesized node
\* holds: the ones near the graphic of path p (in the nearest figure, div,
\* section or article around it, else in its parent), and all of them.
ContainerTexts == TextsAt(arg, TaggedContainers(arg) \ Synthesized(arg))
NearTexts(p) ==
    TextsAt(arg, {q \in TaggedContainers(arg) \ Synthesized(arg) :
                    IsProperPrefix(ContainerOf(BodyOf(arg), p), q)})

\* The texts of the containers inside synthesized nodes, of the input and of
\* the result, the block that took the place of the graphic of p apart.
SynthesizedTexts(p) ==
    TextsAt(arg, Synthesized(arg))
       \cup TextsAt(ret, {q \in Synthesized(ret) : ~IsProperPrefix(p, q)})

RawCandidates == Range(extractMermaidBlocksFromRawHtml(arg))

\* The order of the claim for the graphic of path p.
InClaimedOrder(p) ==
    /\ OwnValues(p) # {} => ChosenSource(p) \in OwnValues(p)
    /\ OwnValues(p) = {} /\ AncestorValues(p) # {} => ChosenSource(p) \in AncestorValues(p)
    /\ OwnValues(p) = {} /\ AncestorValues(p) = {} /\ NearTexts(p) # {} =>
          ChosenSource(p) \in ContainerTexts
    /\ ChosenSource(p) # <<>> =>
          ChosenSource(p) \in OwnValues(p) \cup AncestorValues(p) \cup ContainerTexts
                                \cup RawCandidates

\* No text of a container inside a synthesized node became the source of the
\* graphic of path p (unless the graphic had the same text from elsewhere).
NotFromSynthesized(p) ==
    ChosenSource(p) \in SynthesizedTexts(p) =>
       ChosenSource(p) \in OwnValues(p) \cup AncestorValues(p) \cup ContainerTexts
                             \cup RawCandidates

\* C20: for each recognized diagram graphic the source is chosen in this
\* order: a non-blank known data attribute on the node, then on an ancestor,
\* then a tagged text container near the node, and only when all of these
\* yield nothing a candidate from the raw-HTML scan; a text container that
\* lies inside a node marked as synthesized by the Normalizer is never used
\* as the source of any graphic.
C20_SourceOrder ==
    fn = "normalizeContentHtml" =>
       \A p \in Outermost(arg) : InClaimedOrder(p) /\ NotFromSynthesized(p)

\* A known attribute of the node of path p or of an ancestor is there and
\* blank: closest() stops at it, whatever the ancestors further up carry.
BlankKnownAttribute(p) ==
    \E k \in 0..Len(p) : \E a \in Range(AttrCandidates) :
       /\ getAttribute(NodeAt(BodyOf(arg), Prefix(p, k)), a) # Null
       /\ ~NonBlankValue(getAttribute(NodeAt(BodyOf(arg), Prefix(p, k)), a))

\* A synthesized block stands in the input or took the place of another
\* graphic: querySelector stops at its code element, whatever tagged
\* container follows it.
SynthesizedBlock(p) ==
    \/ Synthesized(arg) # {}
    \/ \E q \in Synthesized(ret) : ~IsProperPrefix(p, q)

\* C20 for the graphics no blank known attribute and no synthesized block
\* stands in the way of.
C20_SourceOrderUnshadowed ==
    fn = "normalizeContentHtml" =>
       \A p \in Outermost(arg) :
          /\ NotFromSynthesized(p)
          /\ ~BlankKnownAttribute(p) /\ ~SynthesizedBlock(p) => InClaimedOrder(p)

----------------------------------------------------------------------------
(* The specification of the loop over the svgs (content.js 292-347), turn  *)
(* by turn, on pages of graphics of several subtypes and raw candidates of  *)
(* several diagram types.                                                  *)

MaxRaws == 2

Typed(a) == El("svg", <<<<"id", <<"mermaid", "-", "1">>>>>> \o a, <<>>)

\* Graphics by what their class and role say: nothing, a state diagram, a
\* sequence diagram, a sequence diagram with a state role, a flowchart with
\* a sequence role, and a graphic that carries its source.
TypedGraphics ==
    {Typed(<<>>),
     Typed(<<<<"class", <<"statediagram">>>>>>),
     Typed(<<<<"aria-roledescription", <<"sequence">>>>>>),
     Typed(<<<<"class", <<"sequencediagram">>>>, <<"aria-roledescription", <<"state">>>>>>),
     El("svg", <<<<"class", <<"FLOWCHART">>>>, <<"aria-roledescription", <<"sequence">>>>>>, <<>>),
     Typed(<<<<"data-source", <<"A">>>>>>)}

\* Sources as the raw HTML holds them in fences: a graph, a flowchart in
\* upper case after a blank line, a state diagram, a sequence diagram.
TypedSources ==
    {<<"graph", " ", "D">>,
     <<" ", EscNL, "FLOWCHART", " ", "F">>,
     <<"statediagram", "-", "v2", EscNL, "S">>,
     <<"sequencediagram", EscNL, "Q">>,
     <<"pie", " ", "P">>}

GraphicRuns ==
    {<<g>> : g \in TypedGraphics}
       \cup {<<g, h>> : g \in TypedGraphics, h \in TypedGraphics}
       \cup {<<Typed(<<>>), Typed(<<<<"class", <<"statediagram">>>>>>), Typed(<<>>)>>}

RawRuns == UNION {[1..k -> TypedSources] : k \in 0..MaxRaws}

LoopPages ==
    {g \o [i \in 1..Len(r) |-> RawFenceOf(r[i])] : g \in GraphicRuns, r \in RawRuns}

\* const svgs = Array.from(body.querySelectorAll('svg')) (content.js 292)
SvgsOf(nodes) == PathsWithTag(BodyOf(nodes), "svg")

InitLoop ==
    /\ NoFence
    /\ NoPage
    /\ NoDownloader
    /\ fn = "none"
    /\ arg \in LoopPages
    /\ ret = <<>>
    /\ threw = {}
    /\ scan = NoScan
    /\ loop = NoLoop

\* normalizeContentHtml up to the loop (content.js 284-296); the serializer
\* will throw on every svg or on none.
LoopStart ==
    /\ fn = "none"
    /\ fn' = "svg loop"
    /\ loop' = [st |-> SvgLoopStart(BodyOf(arg)), turn |-> 0]
    /\ threw' \in {{}, Range(SvgsOf(arg))}
    /\ UNCHANGED <<arg, ret, scan>>
    /\ UNCHANGED <<varsFence, varsPage, varsDownloader>>

\* The call of pickRawMermaidSourceForSvg a turn makes (content.js 313-314),
\* as a sequence of at most one record of its arguments and its answer.
PickCall(st, p, svg, raws) ==
    IF /\ IsMermaidSvg(svg)
       /\ extractMermaidSourceIn(TreeOf(st, p), PathIn(st, p), st.root) = <<>>
       /\ st.rawMermaidIndex < Len(raws)
    THEN <<[at |-> p, svg |-> svg, raws |-> raws, startIndex |-> st.rawMermaidIndex,
            pick |-> pickRawMermaidSourceForSvg(svg, raws, st.rawMermaidIndex)]>>
    ELSE <<>>

\* One turn of the loop, for the svg of path p; ret gathers the calls of
\* pickRawMermaidSourceForSvg with their answers.
LoopTurnAt(p, raws) ==
    /\ loop' = [st |-> SvgLoopBody(loop.st, p, raws, threw), turn |-> loop.turn + 1]
    /\ ret' = ret \o PickCall(loop.st, p, NodeAt(TreeOf(loop.st, p), PathIn(loop.st, p)), raws)

LoopTurn ==
    /\ fn = "svg loop"
    /\ loop.turn < Len(SvgsOf(arg))
    /\ LoopTurnAt(SvgsOf(arg)[loop.turn + 1], extractMermaidBlocksFromRawHtml(arg))
    /\ UNCHANGED <<fn, arg, threw, scan>>
    /\ UNCHANGED <<varsFence, varsPage, varsDownloader>>

\* The end of the loop and the log of its counters (content.js 367-375).
LoopEnd ==
    /\ fn = "svg loop"
    /\ loop.turn = Len(SvgsOf(arg))
    /\ fn' = "svg scan"
    /\ scan' = SvgScan(loop.st, Len(SvgsOf(arg)), Len(extractMermaidBlocksFromRawHtml(arg)))
    /\ UNCHANGED <<arg, ret, threw, loop>>
    /\ UNCHANGED <<varsFence, varsPage, varsDownloader>>

NextLoop == LoopStart \/ LoopTurn \/ LoopEnd

SpecLoop == InitLoop /\ [][NextLoop]_vars

----------------------------------------------------------------------------
(* The choice among the raw candidates (content.js 414-441), in the        *)
(* specification of the loop.                                              *)

\* The words of the class and of the role of a graphic, in lower case.
ClassWords(svg) == LowerAll(AttrOrEmpty(svg, "class"))
RoleWords(svg) == LowerAll(AttrOrEmpty(svg, "aria-roledescription"))

\* The subtype of a graphic: flowchart before sequence, sequence before
\* state, graph when its class and role say nothing.
Subtype(svg) ==
    IF IncludesWord(ClassWords(svg), "flowchart") \/ IncludesWord(RoleWords(svg), "flowchart")
    THEN "graph"
    ELSE IF IncludesWord(ClassWords(svg), "sequencediagram")
              \/ IncludesWord(RoleWords(svg), "sequence")
    THEN "sequence"
    ELSE IF IncludesWord(ClassWords(svg), "statediagram")
              \/ IncludesWord(RoleWords(svg), "state")
    THEN "state"
    ELSE "graph"

Keywords(subtype) ==
    CASE subtype = "state" -> {"statediagram"}
      [] subtype = "sequence" -> {"sequencediagram"}
      [] OTHER -> {"graph", "flowchart"}

\* The first word of the first non-blank line of src, in lower case.
FirstWord(src) ==
    LET at == {i \in 1..Len(src) : ~IsSpace(src[i])}
    IN  IF at = {} THEN "" ELSE Lower(src[CHOOSE i \in at : \A j \in at : i <= j])

\* The places (from 1) of the remaining candidates of the subtype of c.svg.
Matching(c) ==
    {i \in (c.startIndex + 1)..Len(c.raws) : FirstWord(c.raws[i]) \in Keywords(Subtype(c.svg))}

\* C21: when a recognized graphic has no source from attributes or
\* containers and raw candidates remain, pickRawMermaidSourceForSvg assigns
\* it the first remaining candidate whose first non-blank line starts with
\* the keyword of the graphic's subtype (state: statediagram, sequence:
\* sequencediagram, otherwise graph or flowchart, without regard to case),
\* and the candidate at the current position when no remaining candidate
\* matches; the subtype is inferred from class and role with flowchart
\* before sequence and sequence before state.
C21_PickBySubtype ==
    \A k \in 1..Len(ret) :
       fn \in {"svg loop", "svg scan"} =>
          /\ ret[k].pick.used
          /\ IF Matching(ret[k]) # {}
             THEN /\ ret[k].pick.nextIndex \in Matching(ret[k])
                  /\ \A i \in Matching(ret[k]) : ret[k].pick.nextIndex <= i
             ELSE ret[k].pick.nextIndex = ret[k].startIndex + 1
          /\ ret[k].pick.source = ret[k].raws[ret[k].pick.nextIndex]

\* A sequence diagram with a state role was asked for a source with a state
\* diagram first and a sequence diagram second among the candidates, and was
\* given the second.
C21_Witness ==
    /\ fn = "svg scan"
    /\ \E k \in 1..Len(ret) :
          /\ Subtype(ret[k].svg) = "sequence"
          /\ IncludesWord(RoleWords(ret[k].svg), "state")
          /\ FirstWord(ret[k].raws[1]) = "statediagram"
          /\ ret[k].startIndex = 0
          /\ ret[k].pick.nextIndex = 2

\* A graphic was given the candidate at the cursor, which is of another
\* type, because no remaining candidate matched.
C21_PositionalWitness ==
    /\ fn = "svg scan"
    /\ \E k \in 1..Len(ret) :
          /\ Matching(ret[k]) = {}
          /\ ret[k].startIndex = 1
          /\ ret[k].pick.source = ret[k].raws[2]

----------------------------------------------------------------------------
(* The specification of the language of a block-code container (content.js *)
(* 542-556, 617-642): containers whose pre and code carry any of the four  *)
(* signs of a language.                                                    *)

LanguageSigns == 1..4

\* The language sign k on an element names the language <<who, k>> stands
\* for: "c1" is the data-lang of a code element, "p4" the lang-* class of
\* a pre.
Named(who, k) ==
    CASE who = "c" -> <<"c1", "c2", "c3", "c4">>[k]
      [] OTHER -> <<"p1", "p2", "p3", "p4">>[k]

\* The attributes of an element that carries the signs S: data-lang,
\* data-language, and a class of a plain token, the lang-* token and the
\* language-* token.
SignAttrs(who, S) ==
    (IF 1 \in S THEN <<<<"data-lang", <<Named(who, 1)>>>>>> ELSE <<>>)
       \o (IF 2 \in S THEN <<<<"data-language", <<Named(who, 2)>>>>>> ELSE <<>>)
       \o (IF 3 \in S \/ 4 \in S
           THEN <<<<"class", <<"hl">>
                      \o (IF 4 \in S THEN <<" ", "lang", "-", Named(who, 4)>> ELSE <<>>)
                      \o (IF 3 \in S THEN <<" ", "language", "-", Named(who, 3)>> ELSE <<>>)>>>>
           ELSE <<>>)

\* Besides: an empty data-lang before a data-language, and a class whose
\* only token holds lang- in its middle.
OddAttrs(who) ==
    {<<<<"data-lang", <<>>>>, <<"data-language", <<Named(who, 2)>>>>>>,
     <<<<"class", <<"no", "-", "lang", "-", Named(who, 4)>>>>>>}

ElementAttrs(who) == {SignAttrs(who, S) : S \in SUBSET LanguageSigns} \cup OddAttrs(who)

\* Containers: a pre around text, around a code element, around a code
\* element inside a span, and around a pre around a code element.
LanguageContainers ==
    {El("pre", a, <<Txt(<<"x">>)>>) : a \in ElementAttrs("p")}
       \cup {El("pre", a, <<El("code", b, <<Txt(<<"x">>)>>)>>) :
                a \in ElementAttrs("p"), b \in ElementAttrs("c")}
       \cup {El("pre", a, <<El("span", <<>>, <<El("code", b, <<Txt(<<"x">>)>>)>>)>>) :
                a \in ElementAttrs("p"), b \in {SignAttrs("c", S) : S \in {{}, {1}, {4}}}}
       \cup {El("pre", a, <<El("pre", b, <<El("code", <<>>, <<Txt(<<"x">>)>>)>>)>>) :
                a \in ElementAttrs("p"), b \in {SignAttrs("c", S) : S \in {{}, {2}}}}

InitLanguage ==
    /\ NoFence
    /\ NoPage
    /\ NoDownloader
    /\ fn = "none"
    /\ arg \in {<<pre>> : pre \in LanguageContainers}
    /\ ret = <<>>
    /\ threw = {}
    /\ scan = NoScan
    /\ loop = NoLoop

\* this.detectLanguageForPre(pre) (content.js 383) for the pre of arg.
DetectLanguageForPreCall ==
    /\ fn = "none"
    /\ fn' = "detectLanguageForPre"
    /\ ret' = detectLanguageForPre(BodyOf(arg), <<1>>)
    /\ UNCHANGED <<arg, threw, scan, loop>>
    /\ UNCHANGED <<varsFence, varsPage, varsDownloader>>

\* this.detectLanguage(codeElement) of the block-code rule (content.js 60)
\* for the first code element of the pre of arg.
DetectLanguageCall ==
    /\ fn = "none"
    /\ FirstPathWithTag(BodyOf(arg), <<1>>, {"code"}) # <<>>
    /\ fn' = "detectLanguage"
    /\ ret' = detectLanguageAt(BodyOf(arg), FirstPathWithTag(BodyOf(arg), <<1>>, {"code"})[1])
    /\ UNCHANGED <<arg, threw, scan, loop>>
    /\ UNCHANGED <<varsFence, varsPage, varsDownloader>>

NextLanguage == DetectLanguageForPreCall \/ DetectLanguageCall

SpecLanguage == InitLanguage /\ [][NextLanguage]_vars

\* The class tokens of n that are prefix-* tokens, and the word of the
\* first of them (nothing without one).
PrefixTokens(n, prefix) ==
    SelectSeq(SplitBlank(AttrOrEmpty(n, "class"), <<>>),
              LAMBDA t : Len(t) >= 3 /\ t[1] = prefix /\ t[2] = "-" /\ IsWordAtom(t[3]))
TokenLanguage(n, prefix) ==
    IF PrefixTokens(n, prefix) = <<>> THEN <<>> ELSE <<Head(PrefixTokens(n, prefix))[3]>>

\* The first non-empty of a sequence of strings, the empty string without.
FirstNonEmpty(vs) ==
    LET full == SelectSeq(vs, LAMBDA v : v # <<>>)
    IN  IF full = <<>> THEN <<>> ELSE Head(full)

\* The four checks on element n, in their order.
FourChecks(n) ==
    <<AttrOrEmpty(n, "data-lang"), AttrOrEmpty(n, "data-language"),
      TokenLanguage(n, "language"), TokenLanguage(n, "lang")>>

\* The code children of the container.
CodeKids(pre) == SelectSeq(pre.kids, LAMBDA k : k.tag = "code")

\* The language of the container by the claim.
ClaimedLanguage(pre) ==
    IF CodeKids(pre) # <<>>
    THEN FirstNonEmpty(FourChecks(Head(CodeKids(pre))) \o FourChecks(pre))
    ELSE FirstNonEmpty(FourChecks(pre))

\* C22: for every block-code container the language is the first non-empty
\* of: the code element's data-lang, its data-language, a language-* class
\* token of the code element, a lang-* class token of the code element, and
\* then the same four checks on the enclosing pre; when the pre has no code
\* child the checks are made on the pre itself; the language is empty when
\* none applies.
C22_LanguageOrder ==
    fn = "detectLanguageForPre" => ret = ClaimedLanguage(arg[1])

\* The word after the first prefix- that stands anywhere in the class of n,
\* at the start of a token or inside one.
AnywhereLanguage(n, prefix) ==
    LET cls == AttrOrEmpty(n, "class")
        at == {i \in 1..(Len(cls) - 2) :
                 cls[i] = prefix /\ cls[i + 1] = "-" /\ IsWordAtom(cls[i + 2])}
    IN  IF at = {} THEN <<>> ELSE <<cls[(CHOOSE i \in at : \A j \in at : i <= j) + 2]>>

MatchedChecks(n) ==
    <<AttrOrEmpty(n, "data-lang"), AttrOrEmpty(n, "data-language"),
      AnywhereLanguage(n, "language"), AnywhereLanguage(n, "lang")>>

\* The first code element inside the container, at any depth, and the
\* nearest pre around it.
CodeInside(pre) == FirstPathWithTag(pre, <<>>, {"code"})
NearestPre(pre, q) ==
    NodeAt(pre, Closest(pre, q, LAMBDA m : m.tag = "pre")[1])

\* C22 with the code element taken at any depth, the enclosing pre the
\* nearest pre around that code element, and language- and lang- matched
\* anywhere in the class.
C22_LanguageOrderAsMatched ==
    fn = "detectLanguageForPre" =>
       ret = IF CodeInside(arg[1]) # <<>>
             THEN FirstNonEmpty(MatchedChecks(NodeAt(arg[1], CodeInside(arg[1])[1]))
                                   \o MatchedChecks(NearestPre(arg[1], CodeInside(arg[1])[1])))
             ELSE FirstNonEmpty(MatchedChecks(arg[1]))

----------------------------------------------------------------------------
(* The specification of the figure rule (content.js 163-186): figures with *)
(* and without image, caption and other children.                          *)

Image(alt, src) ==
    El("img", (IF alt = <<>> THEN <<>> ELSE <<<<"alt", alt>>>>)
                 \o (IF src = <<>> THEN <<>> ELSE <<<<"src", src>>>>), <<>>)

\* What a figure holds as its image: nothing, an image with alt and src,
\* without alt, without src, an image inside a link, two images.
FigureImages ==
    {<<>>,
     <<Image(<<"A">>, <<"s.png">>)>>,
     <<Image(<<>>, <<"s.png">>)>>,
     <<Image(<<"A">>, <<>>)>>,
     <<El("a", LinkAttrs, <<Image(<<"A">>, <<"s.png">>)>>)>>,
     <<Image(<<"A">>, <<"s.png">>), Image(<<"B">>, <<"t.png">>)>>}

\* As its caption: nothing, a caption with blanks around its text, a caption
\* with emphasis.
FigureCaptions ==
    {<<>>,
     <<El("figcaption", <<>>, <<Txt(<<" ", "Cap", " ">>)>>)>>,
     <<El("figcaption", <<>>, <<El("em", <<>>, <<Txt(<<"Cap">>)>>)>>)>>}

\* As its other children: nothing, a paragraph, a block of code, both.
FigureOthers ==
    {<<>>,
     <<El("p", <<>>, <<Txt(<<"T">>)>>)>>,
     <<El("pre", <<>>, <<El("code", <<>>, <<Txt(<<"x">>)>>)>>)>>,
     <<El("p", <<>>, <<Txt(<<"T">>)>>), El("pre", <<>>, <<El("code", <<>>, <<Txt(<<"x">>)>>)>>)>>}

Figures ==
    {El("figure", <<>>, i \o c \o o) : i \in FigureImages, c \in FigureCaptions, o \in FigureOthers}
       \cup {El("figure", <<>>, o \o i \o c) :
                i \in FigureImages, c \in FigureCaptions, o \in FigureOthers}

InitFigure ==
    /\ NoFence
    /\ NoPage
    /\ NoDownloader
    /\ fn = "none"
    /\ arg \in {<<f>> : f \in Figures}
    /\ ret = <<>>
    /\ threw = {}
    /\ scan = NoScan
    /\ loop = NoLoop

\* The figure rule's replacement for the figure of arg, with the content
\* Turndown hands it: the conversion of all the children of the figure.
FigureRuleCall ==
    /\ fn = "none"
    /\ fn' = "figure"
    /\ ret' = figureRule(process(turndown, RootNode(arg), <<1>>), RootNode(arg).kids[1])
    /\ UNCHANGED <<arg, threw, scan, loop>>
    /\ UNCHANGED <<varsFence, varsPage, varsDownloader>>

\* this.turndown.turndown(html) for the figure alone.
FigureTurndownCall ==
    /\ fn = "none"
    /\ fn' = "turndown"
    /\ ret' = turndownHtml(turndown, arg)
    /\ UNCHANGED <<arg, threw, scan, loop>>
    /\ UNCHANGED <<varsFence, varsPage, varsDownloader>>

NextFigure == FigureRuleCall \/ FigureTurndownCall

SpecFigure == InitFigure /\ [][NextFigure]_vars

\* The figure as the transducer reads it.
FigureRead == RootNode(arg).kids[1]

\* The first image and the first caption inside the figure, by their paths.
FigureImage == FirstPathWithTag(FigureRead, <<>>, {"img"})
FigureCaption == FirstPathWithTag(FigureRead, <<>>, {"figcaption"})

\* The image reference and the italic caption of the figure.
ImageReference ==
    <<"![">> \o AttrOrEmpty(NodeAt(FigureRead, FigureImage[1]), "alt") \o <<"](">>
       \o AttrOrEmpty(NodeAt(FigureRead, FigureImage[1]), "src") \o <<")">>
CaptionText == Trim(textContent(NodeAt(FigureRead, FigureCaption[1])))
ItalicCaption == <<"*">> \o CaptionText \o <<"*">>

\* The figure without its image and its caption (a child that holds the
\* image goes with it).
IsOther(k) ==
    /\ k.tag \notin {"img", "figcaption"}
    /\ FirstWithTag(k, {"img", "figcaption"}) = <<>>
OtherChildren == [FigureRead EXCEPT !.kids = SelectSeq(@, IsOther)]

\* The conversion of the other children.
OtherContent ==
    Trim(process(turndown, El("x-turndown", <<>>, <<OtherChildren>>), <<1>>))

\* The number of places of s where part stands.
Occurrences(s, part) ==
    Cardinality({i \in 1..(Len(s) - Len(part) + 1) : SubSeq(s, i, i + Len(part) - 1) = part})

\* C23: for every figure element the figure rule emits, in this order and
\* each on its own line, the image reference built from the image's alt and
\* src if an image is present, the italic caption if a caption is present,
\* and then only the converted content of the figure's other children; the
\* image reference and the caption text therefore each appear exactly once
\* in the figure's output.
C23_FigureLines ==
    fn = "figure" =>
       /\ ret = (IF FigureImage # <<>> THEN ImageReference \o <<NL>> ELSE <<>>)
                   \o (IF FigureCaption # <<>> THEN ItalicCaption \o <<NL>> ELSE <<>>)
                   \o (IF OtherContent # <<>> THEN OtherContent \o <<NL>> ELSE <<>>)
                   \o <<NL>>
       /\ FigureImage # <<>> => Occurrences(ret, ImageReference) = 1
       /\ FigureCaption # <<>> /\ CaptionText # <<>> => Occurrences(ret, CaptionText) = 1

\* C23 with the content the rule is handed: the conversion of all the
\* children of the figure, its image and its caption among them.
C23_FigureLinesAllChildren ==
    fn = "figure" =>
       ret = (IF FigureImage # <<>> THEN ImageReference \o <<NL>> ELSE <<>>)
                \o (IF FigureCaption # <<>> THEN ItalicCaption \o <<NL>> ELSE <<>>)
                \o (IF Trim(process(turndown, RootNode(arg), <<1>>)) # <<>>
                    THEN Trim(process(turndown, RootNode(arg), <<1>>)) \o <<NL>> ELSE <<>>)
                \o <<NL>>

----------------------------------------------------------------------------
(* The background script (background.js 27-60): the messages it receives,  *)
(* the downloads it starts and the object URLs it creates. The k-th message *)
(* is received[k]; downloads[k] and responses[k] say where its download     *)
(* stands and what its sender was answered.                                *)

MaxMessages == 3

\* The messages: the result message of a conversion, the same with a title
\* that is no string, the same without data, and a message of another type.
Messages ==
    {[type |-> "DOWNLOAD_MARKDOWN", data |-> "markdown and metadata"],
     [type |-> "DOWNLOAD_MARKDOWN", data |-> "title is a number"],
     [type |-> "DOWNLOAD_MARKDOWN", data |-> "undefined"],
     [type |-> "PING", data |-> "undefined"]}

NoResponse == [sent |-> FALSE, success |-> FALSE, error |-> ""]
Success == [sent |-> TRUE, success |-> TRUE, error |-> ""]
Failure(error) == [sent |-> TRUE, success |-> FALSE, error |-> error]

\* const { markdown, metadata } = data throws on undefined; generateFilename
\* throws on a title without replace(); generateFrontmatter throws on none
\* of the messages.
DestructuringThrows(m) == m.data = "undefined"
generateFilenameThrows(m) == m.data = "title is a number"
generateFrontmatterThrows(m) == FALSE

\* downloadMarkdown up to its await (background.js 38-52): "rejected" with
\* the error when something threw, "downloading" when download() was called.
\* urlCreated tells whether new Blob and URL.createObjectURL returned.
downloadMarkdownStart(m, urlCreated) ==
    IF DestructuringThrows(m) THEN [at |-> "rejected", error |-> "TypeError"]
    ELSE IF generateFilenameThrows(m) \/ generateFrontmatterThrows(m)
    THEN [at |-> "rejected", error |-> "TypeError"]
    ELSE IF ~urlCreated THEN [at |-> "rejected", error |-> "Download failed: createObjectURL"]
    ELSE [at |-> "downloading", error |-> ""]

\* handleMessage that lets a rejection of downloadMarkdown through.
handleMessageUncaught(m, urlCreated) ==
    IF m.type # "DOWNLOAD_MARKDOWN" THEN [at |-> "ignored", response |-> NoResponse]
    ELSE [at |-> downloadMarkdownStart(m, urlCreated).at, response |-> NoResponse]

\* handleMessage(message) (background.js 27-36) up to the first await: where
\* the download stands, and the response when the promise is settled.
handleMessage(m, urlCreated) ==
    IF m.type # "DOWNLOAD_MARKDOWN" THEN [at |-> "ignored", response |-> NoResponse]
    ELSE LET started == downloadMarkdownStart(m, urlCreated)
         IN  [at |-> started.at,
              response |-> IF started.at = "rejected" THEN Failure(started.error)
                           ELSE NoResponse]

InitDownloader ==
    /\ NoFence
    /\ NoPage
    /\ NoCall
    /\ received = <<>>
    /\ downloads = <<>>
    /\ objectUrls = {}
    /\ timers = {}
    /\ responses = <<>>

\* browser.runtime.onMessage delivers a message: handleMessage runs to its
\* return, and the rejection of a download that never started is caught.
ReceiveDownloadMessage ==
    /\ Len(received) < MaxMessages
    /\ \E m \in Messages : \E urlCreated \in BOOLEAN :
          /\ received' = Append(received, m)
          /\ downloads' = Append(downloads, handleMessage(m, urlCreated).at)
          /\ responses' = Append(responses, handleMessage(m, urlCreated).response)
          /\ objectUrls' = IF handleMessage(m, urlCreated).at = "downloading"
                           THEN objectUrls \cup {Len(received) + 1} ELSE objectUrls
    /\ UNCHANGED timers
    /\ UNCHANGED <<varsFence, varsPage, varsCall>>

\* The download call resolves: the revocation is scheduled (background.js
\* 54) and the sender is answered {success: true}.
DownloadResolves(k) ==
    /\ k \in DOMAIN downloads
    /\ downloads[k] = "downloading"
    /\ downloads' = [downloads EXCEPT ![k] = "resolved"]
    /\ timers' = timers \cup {k}
    /\ responses' = [responses EXCEPT ![k] = Success]
    /\ UNCHANGED <<received, objectUrls>>
    /\ UNCHANGED <<varsFence, varsPage, varsCall>>

\* The download call rejects: the catch of line 55 throws, the catch of
\* line 32 answers {success: false, error}.
DownloadRejects(k) ==
    /\ k \in DOMAIN downloads
    /\ downloads[k] = "downloading"
    /\ downloads' = [downloads EXCEPT ![k] = "rejected"]
    /\ responses' = [responses EXCEPT ![k] = Failure("Download failed")]
    /\ UNCHANGED <<received, objectUrls, timers>>
    /\ UNCHANGED <<varsFence, varsPage, varsCall>>

\* The timer of line 54 fires: URL.revokeObjectURL(url).
RevokeObjectUrl(k) ==
    /\ k \in timers
    /\ timers' = timers \ {k}
    /\ objectUrls' = objectUrls \ {k}
    /\ UNCHANGED <<received, downloads, responses>>
    /\ UNCHANGED <<varsFence, varsPage, varsCall>>

NextDownloader ==
    \/ ReceiveDownloadMessage
    \/ \E k \in 1..Len(received) : DownloadResolves(k)
    \/ \E k \in 1..Len(received) : DownloadRejects(k)
    \/ \E k \in 1..Len(received) : RevokeObjectUrl(k)

SpecDownloader == InitDownloader /\ [][NextDownloader]_vars

\* The browser settles every download call and fires every timer.
SpecDownloaderFair ==
    /\ SpecDownloader
    /\ \A k \in 1..MaxMessages :
          /\ WF_vars(DownloadResolves(k) \/ DownloadRejects(k))
          /\ WF_vars(RevokeObjectUrl(k))

\* No object URL is revoked before its download call has resolved.
NotRevokedEarly ==
    [][\A k \in objectUrls : k \notin objectUrls' => downloads[k] = "resolved"]_vars

\* C24: every temporary object URL that downloadMarkdown creates is
\* eventually revoked after the fixed delay, whether the download call
\* resolves or rejects, and it is never revoked before the download call
\* has resolved.
C24_ObjectUrlRevoked ==
    /\ \A k \in 1..MaxMessages : (k \in objectUrls) ~> (k \notin objectUrls)
    /\ NotRevokedEarly

\* C24 for the download calls that resolve: the object URL is revoked in
\* the end, and not before.
C24_RevokedAfterResolve ==
    /\ \A k \in 1..MaxMessages :
          (k <= Len(downloads) /\ downloads[k] = "resolved") ~> (k \notin objectUrls)
    /\ NotRevokedEarly

\* The object URL of a download call that rejected is never revoked.
C24_LeftAfterReject ==
    \A k \in 1..Len(downloads) : downloads[k] = "rejected" /\ k \in objectUrls => k \notin timers

----------------------------------------------------------------------------
(* The answers of the background script (background.js 27-36)              *)

\* Everything the download of message k needs has succeeded.
AllSucceeded(k) ==
    received[k].data = "markdown and metadata" /\ downloads[k] = "resolved"

\* The download of message k is still awaited.
Awaited(k) == received[k].data = "markdown and metadata" /\ downloads[k] = "downloading"

Answers ==
    \A k \in 1..Len(received) :
       IF received[k].type = "DOWNLOAD_MARKDOWN"
       THEN /\ downloads[k] \in {"downloading", "resolved", "rejected"}
            /\ responses[k] = Success <=> AllSucceeded(k)
            /\ ~responses[k].sent <=> Awaited(k)
            /\ responses[k].sent /\ ~AllSucceeded(k) =>
                  ~responses[k].success /\ responses[k].error # ""
       ELSE /\ downloads[k] = "ignored"
            /\ responses[k] = NoResponse
            /\ k \notin objectUrls

\* C27: for every message of type DOWNLOAD_MARKDOWN, handleMessage answers
\* with exactly one response and never rejects: {success: true} if and only
\* if filename generation, front-matter generation and the download call all
\* succeeded, otherwise {success: false, error}; for a message of any other
\* type it starts no download and returns no response.
C27_OneAnswer ==
    /\ []Answers
    /\ [][\A k \in 1..Len(received) : responses[k].sent => responses'[k] = responses[k]]_vars

\* Three messages: one answered {success: true}, one {success: false}
\* after its download call rejected, and one of another type.
C27_Witness ==
    /\ Len(received) = 3
    /\ \E k \in 1..3 : responses[k] = Success
    /\ \E k \in 1..3 : Awaited(k) = FALSE /\ received[k].data = "markdown and metadata"
                           /\ downloads[k] = "rejected" /\ ~responses[k].success
    /\ \E k \in 1..3 : received[k].type = "PING"

----------------------------------------------------------------------------
(* Invocations of processPage against each other (content.js 20-26,       *)
(* 191-205), under SpecPage.                                               *)

\* Invocation i is suspended at `await this.sendToBackground(...)`.
Suspended(i) == i \in awaiting

\* Invocation i has returned: after its await, or through its catch block.
Over(i) ==
    \/ i \in sent /\ i \notin awaiting
    \/ \E e \in errors : e.inv = i

\* Invocation inv is between its first statement and its await.
Running == pc # "idle"

\* C25: the extraction, metadata and conversion steps of one invocation run
\* without a step of another invocation, a message or a settled promise in
\* between: while an invocation is running every step is its own next step,
\* every earlier invocation is suspended at its await or over, and a
\* trigger_conversion message starts an invocation only when none is
\* running, every earlier one being suspended or over.
C25_RunToCompletion ==
    /\ [](Running => \A i \in 1..(inv - 1) : Suspended(i) \/ Over(i))
    /\ [][Running => /\ inv' = inv
                     /\ awaiting \subseteq awaiting'
                     /\ awaiting' \subseteq awaiting \cup {inv}
                     /\ doc' = doc
                     /\ pc' # pc]_vars
    /\ [][inv' # inv => /\ ~Running
                        /\ inv' = inv + 1
                        /\ \A i \in 1..inv : Suspended(i) \/ Over(i)]_vars

\* C25 witness: a second invocation was started while the first was
\* suspended, ran to its own await, and both are suspended at once.
C25_Witness ==
    /\ inv = 2
    /\ ~Running
    /\ Suspended(1)
    /\ Suspended(2)

----------------------------------------------------------------------------
(* The live document across an invocation (content.js 207-225, 237-248,    *)
(* 284-286), under SpecPage.                                               *)

----------------------------------------------------------------------------
(* Specification SpecRecognition: the three tests for a diagram graphic    *)
(* (content.js 79-91, 237-239, 298-305) applied to one element, over ids,  *)
(* class lists and role descriptions in both spellings.                    *)

RecognitionIds ==
    {<<>>, <<"mermaid", "-", "1">>, <<"MERMAID", "-", "1">>, <<"x", "mermaid", "-">>}

RecognitionClasses ==
    {<<>>, <<"mermaid">>, <<"MERMAID">>, <<"mermaid", "-", "chart">>,
     <<"icon", " ", "flowchart">>, <<"FLOWCHART">>, <<"icon">>}

RecognitionRoles ==
    {<<>>, <<"flowchart">>, <<"flowchart", "-", "v2">>, <<"FLOWCHART">>, <<"x">>}

\* The attribute list of an element: an attribute is present when its
\* value is not empty.
RecognitionAttrs(id, class, role) ==
    (IF id = <<>> THEN <<>> ELSE <<<<"id", id>>>>)
       \o (IF class = <<>> THEN <<>> ELSE <<<<"class", class>>>>)
       \o (IF role = <<>> THEN <<>> ELSE <<<<"aria-roledescription", role>>>>)

RecognitionElements ==
    {El(tag, RecognitionAttrs(id, class, role), <<>>) :
        tag \in {"svg", "div"}, id \in RecognitionIds,
        class \in RecognitionClasses, role \in RecognitionRoles}

Places == {"normalizeContentHtml", "mermaidSvg.filter", "pageHasMermaidSvg"}

InitRecognition ==
    /\ NoFence
    /\ NoPage
    /\ NoDownloader
    /\ fn = "none"
    /\ arg \in {<<n>> : n \in RecognitionElements}
    /\ ret = <<>>
    /\ threw = {}
    /\ scan = NoScan
    /\ loop = NoLoop

Applied(place) == \E i \in 1..Len(ret) : ret[i].place = place

Recognition(place, result) ==
    /\ ~Applied(place)
    /\ fn' = place
    /\ ret' = Append(ret, [place |-> place, recognized |-> result])
    /\ UNCHANGED <<arg, threw, scan, loop>>
    /\ UNCHANGED <<varsFence, varsPage, varsDownloader>>

\* normalizeContentHtml on the HTML of the element: the element counts as a
\* diagram graphic when the loop's isMermaid test (content.js 298-305) holds.
NormalizeRecognizes ==
    Recognition("normalizeContentHtml", NormalizeSvgs(arg, {}).mermaidSvgCount > 0)

\* The filter of the mermaidSvg rule (content.js 79-91) on the element.
FilterRecognizes ==
    Recognition("mermaidSvg.filter", FilterMatches("mermaidSvg", arg[1], El("body", <<>>, arg)))

\* The page check of convertToMarkdown (content.js 237-239) on a document
\* whose body holds the element.
PageCheckRecognizes ==
    Recognition("pageHasMermaidSvg", pageHasMermaidSvg([EmptyDocument EXCEPT !.body = arg]))

NextRecognition == NormalizeRecognizes \/ FilterRecognizes \/ PageCheckRecognizes

SpecRecognition == InitRecognition /\ [][NextRecognition]_vars

\* What place said of the element.
Said(place) == \E i \in 1..Len(ret) : ret[i].place = place /\ ret[i].recognized

AllApplied == \A place \in Places : Applied(place)

\* C28 (as claimed): the three places agree on every element: what
\* normalizeContentHtml or the rule's filter recognizes makes the page check
\* true, and conversely.
C28_SameRecognition ==
    AllApplied =>
        /\ Said("normalizeContentHtml") = Said("mermaidSvg.filter")
        /\ Said("normalizeContentHtml") = Said("pageHasMermaidSvg")

\* C28, the part that holds: normalizeContentHtml and the rule's filter
\* agree, what the page check finds they both recognize, and they agree with
\* the page check on an element whose class list and role description are
\* written in lower case with mermaid or flowchart a class token of its own.
C28_PageCheckNarrower ==
    AllApplied =>
        /\ Said("normalizeContentHtml") = Said("mermaidSvg.filter")
        /\ Said("pageHasMermaidSvg") => Said("normalizeContentHtml")
        /\ (/\ Said("normalizeContentHtml")
            /\ ~Said("pageHasMermaidSvg")) =>
              LET n == arg[1]
              IN  /\ ~StartsWithMermaidDash(AttrOrEmpty(n, "id"))
                  /\ \/ \E a \in Range(AttrOrEmpty(n, "class")) \cup
                                   Range(AttrOrEmpty(n, "aria-roledescription")) :
                           Lower(a) # a
                     \/ /\ TestWordI(AttrOrEmpty(n, "class"), "mermaid")
                        /\ ~HasClass(n, <<"mermaid">>)

\* Both the normalizer and the page check said yes of the element.
C28_BothRecognize ==
    /\ AllApplied
    /\ Said("normalizeContentHtml")
    /\ Said("pageHasMermaidSvg")

----------------------------------------------------------------------------
(* cleanupMarkdown applied to its own output (content.js 607-609), under   *)
(* SpecCleanup.                                                            *)

\* s holds 4 or more consecutive newlines.
HasFourNewlines(s) ==
    \E i \in 1..(Len(s) - 3) : \A j \in i..(i + 3) : s[j] = NL

\* Some line of s ends in a blank or a tab.
HasBlankLineEnd(s) ==
    \E i \in 1..Len(s) : s[i] \in {" ", "\t"} /\ (i = Len(s) \/ s[i + 1] = NL)

\* s starts or ends with whitespace.
HasOuterWhitespace(s) == s # <<>> /\ (IsSpace(s[1]) \/ IsSpace(s[Len(s)]))

\* C29 (as claimed): cleanupMarkdown is idempotent: cleaning its output
\* again gives the output back, and the output holds no run of 4 or more
\* newlines, no line ending in a blank or tab and no whitespace at its ends.
C29_CleanupIdempotent ==
    fn = "cleanupMarkdown" =>
        /\ cleanupMarkdown(ret) = ret
        /\ ~HasFourNewlines(ret)
        /\ ~HasBlankLineEnd(ret)
        /\ ~HasOuterWhitespace(ret)

\* C29, the part that holds: the output has no line ending in a blank or
\* tab and no whitespace at its ends; it is cleaned to itself unless it
\* holds a run of 4 or more newlines, which only an input with a line of
\* blanks or tabs between newlines leaves; and the second cleaning always
\* gives a string that is cleaned to itself.
C29_CleanupTwice ==
    fn = "cleanupMarkdown" =>
        /\ ~HasBlankLineEnd(ret)
        /\ ~HasOuterWhitespace(ret)
        /\ cleanupMarkdown(ret) # ret => HasFourNewlines(ret)
        /\ HasFourNewlines(ret) =>
              \E i \in 2..(Len(arg) - 1) :
                 /\ arg[i] \in {" ", "\t"}
                 /\ arg[i + 1] = NL
        /\ cleanupMarkdown(cleanupMarkdown(ret)) = cleanupMarkdown(ret)
        /\ ~HasFourNewlines(cleanupMarkdown(ret))

\* An output with a run of 4 or more newlines has been returned.
C29_FourNewlinesLeft ==
    /\ fn = "cleanupMarkdown"
    /\ HasFourNewlines(ret)

----------------------------------------------------------------------------
(* The cursor over the raw candidates during the loop over the svgs        *)
(* (content.js 288-320, 431-440), under SpecLoop.                          *)

InLoop == fn \in {"svg loop", "svg scan"}

\* rawMermaidSources.length of the running pass.
RawCount == Len(extractMermaidBlocksFromRawHtml(arg))

\* The places, from 1, of the candidates given to a graphic so far.
Assigned == {ret[k].pick.nextIndex : k \in 1..Len(ret)}

\* The number of graphics that fell through to the image or the placeholder.
FellThrough(st) == st.mermaidEmbeddedSvgCount + st.mermaidPlaceholderCount

CursorInRange ==
    InLoop => loop.st.rawMermaidIndex \in 0..RawCount

CursorGrows ==
    (fn = "svg loop" /\ fn' = "svg loop") =>
        loop'.st.rawMermaidIndex >= loop.st.rawMermaidIndex

AssignedOnce ==
    InLoop => \A k, m \in 1..Len(ret) :
                 ret[k].pick.nextIndex = ret[m].pick.nextIndex => k = m

\* C30 (as claimed): the cursor never decreases and never exceeds the
\* number of raw candidates, no candidate is given to two graphics, and a
\* graphic falls through to the image or placeholder only when every raw
\* candidate has been given to some graphic.
C30_CursorAssignsAll ==
    /\ []CursorInRange
    /\ []AssignedOnce
    /\ [][CursorGrows]_vars
    /\ [][(fn = "svg loop" /\ fn' = "svg loop"
              /\ FellThrough(loop'.st) > FellThrough(loop.st)) =>
             Assigned = 1..RawCount]_vars

\* C30, the part that holds: the cursor never decreases and never exceeds
\* the number of raw candidates, no candidate is given to two graphics, what
\* is given lies at or after the cursor, and a graphic falls through only
\* when the cursor stands behind the last candidate, every candidate being
\* given or passed over.
C30_CursorPassesOver ==
    /\ []CursorInRange
    /\ []AssignedOnce
    /\ [](InLoop => \A k \in 1..Len(ret) : ret[k].pick.nextIndex > ret[k].startIndex)
    /\ [][CursorGrows]_vars
    /\ [][(fn = "svg loop" /\ fn' = "svg loop"
              /\ FellThrough(loop'.st) > FellThrough(loop.st)) =>
             /\ loop.st.rawMermaidIndex = RawCount
             /\ loop'.st.rawMermaidIndex = RawCount
             /\ ret' = ret]_vars

\* A graphic fell through while a candidate stood unassigned before the
\* cursor.
C30_PassedOver ==
    /\ InLoop
    /\ FellThrough(loop.st) > 0
    /\ loop.st.rawMermaidIndex = RawCount
    /\ Assigned # 1..RawCount
    /\ Assigned # {}

====
